---- MODULE Spec2Model ----
(***************************************************************************)
(* CLiQR acquisition and storage pipeline.                                 *)
(*                                                                         *)
(* The recording task (SensorRecorder.record_sensors, run by               *)
(* start_recording.run_recording) is one asyncio task with a single await  *)
(* point.  Board reads run in ThreadPoolExecutor worker threads.  The      *)
(* session handlers (start_recording, stop_recording, SensorRecorder.stop, *)
(* the comments input) run on the event-loop thread, hence only while the  *)
(* recording task is suspended or not running.                             *)
(*                                                                         *)
(* A sample is represented by the index of the iteration whose read        *)
(* produced it (the value of loop_counter when the read was issued).       *)
(***************************************************************************)
EXTENDS Integers, Sequences, FiniteSets, TLC

\* ------------------------------------------------------------------ bounds
MaxLoops == 201
MaxBoards == 2
MaxSessions == 2
FairLoops == 3
MaxFields == 2
MaxCycles == 2
CardLoops == 2
MaxSamples == 5
MaxTrace == 6
MaxIndex == 9
TicksPerSecond == 24

\* ------------------------------------------------------- program constants
HISTORY_SIZE == 100
NUM_CHANNELS == 6

BoardOrder == <<"FT232H0", "FT232H1", "FT232H2", "FT232H3">>

SERIAL_NUMBER_SENSOR_MAP ==
    [sn \in {"FT232H0", "FT232H1", "FT232H2", "FT232H3"} |->
        CASE sn = "FT232H0" -> <<1, 2, 3, 7, 8, 9>>
          [] sn = "FT232H1" -> <<4, 5, 6, 10, 11, 12>>
          [] sn = "FT232H2" -> <<13, 14, 15, 19, 20, 21>>
          [] sn = "FT232H3" -> <<16, 17, 18, 22, 23, 24>>]

CommentTexts == {"", "note"}

SensorIds == 1..24

\* the sensors whose metadata is followed: one of the first board, one of the last
CardSensors == {1, 16}

\* cycle numbers, time stamps and volume or weight values passed to the writer
MetadataCycles == {0, 1}

TimeStamps == {1, 2}

Volumes == {0, 1, 2}

TimeFields == {"start_time", "stop_time"}

VolumeFields == {"start_vol", "stop_vol", "weight"}

\* utils.state.SensorState(sensor_id): the fields the handlers read or write
SensorState ==
    [is_recording |-> FALSE, recording_cycle |-> 0,
     start_volume |-> 0, stop_volume |-> 0, weight |-> 0]

VARIABLES
    controllers,      \* state.i2c_controllers: serial numbers of the connected boards
    layout_rows,      \* len(state.layout_df)
    comments,         \* state.comments
    sensor_states,    \* state.sensor_states[sensor_id]
    recording_all,    \* state.recording_all
    session,          \* number of recorders created so far
    has_recorder,     \* current_recorder is not None
    recording,        \* current_recorder.recording
    loop_counter,     \* current_recorder.loop_counter
    board_time_data,  \* current_recorder.board_time_data[sn][sensor]
    board_cap_data,   \* current_recorder.board_cap_data[sn][sensor]
    h5_exists,        \* the recorder's HDF5 file has been created
    h5_groups,        \* sensor groups of the file, <<sn, sensor>>
    h5_data,          \* datasets time_data / cap_data, keyed <<sn, sensor, name>>
    h5_meta,          \* scalar datasets of the sensor groups, keyed <<sn, sensor, name>>
    h5_comments,      \* the top-level comments dataset: <<text>>, or <<>> when absent
    pc,               \* position of the recording task
    cancel_pending,   \* recording_task.cancel() requested, not yet delivered
    futures,          \* futures submitted in the current iteration, in order
    fut,              \* per board: state and result of its submitted read
    results,          \* results collected so far by the join
    flushed,          \* what the flush step of the current iteration did
    call,             \* the last call made on the recorder's metadata writer, and its outcome
    raw_h5f,          \* filter_data: the raw store, per sensor group its datasets by name
    data_dict,        \* filter_data: the truncation result of every sensor processed
    filtered_h5f,     \* filter_data: the output store, per animal its datasets
    analysis_pc,      \* filter_data: "idle", "done", or "raised" when it ended by an exception
    algorithm,        \* filter_data: the algorithm argument
    subjects,         \* data_by_animal as handed to the detection algorithm
    detected          \* per animal, the lick fields the algorithm set on its data

DetectionState == <<algorithm, subjects, detected>>

AnalysisState == <<raw_h5f, data_dict, filtered_h5f, analysis_pc, DetectionState>>

vars == <<controllers, call, AnalysisState, layout_rows, comments, sensor_states, recording_all, session,
          has_recorder, recording, loop_counter, board_time_data,
          board_cap_data, h5_exists, h5_groups, h5_data, h5_meta, h5_comments, pc,
          cancel_pending, futures, fut, results, flushed>>

Boards == DOMAIN SERIAL_NUMBER_SENSOR_MAP

\* SERIAL_NUMBER_SENSOR_MAP.get(sn, [])
Sensors(sn) == IF sn \in Boards THEN SERIAL_NUMBER_SENSOR_MAP[sn] ELSE <<>>

SensorSet(sn) == {Sensors(sn)[i] : i \in 1..Len(Sensors(sn))}

\* controllers.keys(), in order
ControllerKeys == SelectSeq(BoardOrder, LAMBDA sn : sn \in controllers)

\* a full buffer that refuses the new sample instead of evicting the oldest
DequeAppend_keep_oldest(q, x) ==
    IF Len(q) >= HISTORY_SIZE THEN q ELSE Append(q, x)

\* collections.deque(maxlen=HISTORY_SIZE).append
DequeAppend(q, x) ==
    IF Len(q) >= HISTORY_SIZE THEN Append(Tail(q), x) ELSE Append(q, x)

\* MPR121Manager.read_sensor_data: one value and one timestamp per channel
read_sensor_data(sn, t) ==
    [time |-> [i \in 1..NUM_CHANNELS |-> t],
     cap  |-> [i \in 1..NUM_CHANNELS |-> t],
     sn   |-> sn]

NoFuture == [status |-> "none", time |-> <<>>, cap |-> <<>>]

IndexOf(seq, x) == CHOOSE i \in 1..Len(seq) : seq[i] = x

\* the (sn, sensor) pairs in the order of "for sn in controllers.keys(): for sensor in sensors"
RECURSIVE PathsOf(_)
PathsOf(keys) ==
    IF keys = <<>> THEN <<>>
    ELSE [i \in 1..Len(Sensors(Head(keys))) |->
             <<Head(keys), Sensors(Head(keys))[i]>>] \o PathsOf(Tail(keys))

SensorPaths == PathsOf(ControllerKeys)

\* SensorRecorder.__init__: one empty deque per sensor of every controller
EmptyBuffers ==
    [sn \in controllers |-> [s \in SensorSet(sn) |-> <<>>]]

NoBuffers == [sn \in {} |-> <<>>]

NoData == [k \in {} |-> <<>>]

\* no call of write_sensor_metadata made yet
NoCall ==
    [sensor_id |-> 0, cycle |-> 0, field |-> "", value |-> 0, before |-> <<>>,
     raised |-> FALSE]

\* ---------------------------------------------------------------- the store
\* An h5py file operation either updates the datasets or raises.
\* st = [data |-> datasets, raised |-> BOOLEAN]

\* group.create_dataset(name, data=...): raises when the name exists
create_dataset(st, key, data) ==
    IF st.raised THEN st
    ELSE IF key \in DOMAIN st.data \/ <<key[1], key[2]>> \notin h5_groups
         THEN [st EXCEPT !.raised = TRUE]
         ELSE [st EXCEPT !.data = (key :> data) @@ st.data]

\* dataset.resize((n,)): truncates or extends with the fill value 0
resize(st, key, n) ==
    IF st.raised THEN st
    ELSE IF key \notin DOMAIN st.data \/ n < 0
         THEN [st EXCEPT !.raised = TRUE]
         ELSE LET old == st.data[key]
                  new == IF n <= Len(old) THEN SubSeq(old, 1, n)
                         ELSE old \o [i \in 1..(n - Len(old)) |-> 0]
              IN [st EXCEPT !.data = [@ EXCEPT ![key] = new]]

Min(a, b) == IF a <= b THEN a ELSE b

Max(a, b) == IF a >= b THEN a ELSE b

\* dataset[lo:hi] = data: the selection is clipped to the dataset, a value of
\* one element is broadcast, any other length mismatch raises
write_slice(st, key, lo, hi, data) ==
    IF st.raised THEN st
    ELSE IF key \notin DOMAIN st.data THEN [st EXCEPT !.raised = TRUE]
    ELSE LET old == st.data[key]
             a == Min(Max(lo, 0), Len(old))
             b == Max(Min(Max(hi, 0), Len(old)), a)
         IN IF b - a = Len(data)
            THEN [st EXCEPT !.data = [@ EXCEPT ![key] =
                     [i \in 1..Len(old) |->
                         IF i > a /\ i <= b THEN data[i - a] ELSE old[i]]]]
            ELSE IF Len(data) = 1
            THEN [st EXCEPT !.data = [@ EXCEPT ![key] =
                     [i \in 1..Len(old) |->
                         IF i > a /\ i <= b THEN data[1] ELSE old[i]]]]
            ELSE [st EXCEPT !.raised = TRUE]

\* SensorRecorder._write_initial_data, for the sensors of `paths` in order
RECURSIVE write_initial(_, _)
write_initial(st, paths) ==
    IF paths = <<>> \/ st.raised THEN st
    ELSE LET sn == Head(paths)[1]
             sensor == Head(paths)[2]
             st1 == create_dataset(st, <<sn, sensor, "time_data">>,
                                   board_time_data[sn][sensor])
             st2 == create_dataset(st1, <<sn, sensor, "cap_data">>,
                                   board_cap_data[sn][sensor])
         IN write_initial(st2, Tail(paths))

_write_initial_data ==
    write_initial([data |-> h5_data, raised |-> FALSE], SensorPaths)

\* the offset without the subtraction of the batch length
tmp_ctr_nosub == loop_counter

\* tmp_ctr of _append_data: the size before this batch
tmp_ctr == loop_counter - HISTORY_SIZE

\* new_size of _append_data
new_size == tmp_ctr + HISTORY_SIZE

\* SensorRecorder._append_data, for the sensors of `paths` in order
RECURSIVE append_batch(_, _)
append_batch(st, paths) ==
    IF paths = <<>> \/ st.raised THEN st
    ELSE LET sn == Head(paths)[1]
             sensor == Head(paths)[2]
             tkey == <<sn, sensor, "time_data">>
             ckey == <<sn, sensor, "cap_data">>
             st1 == resize(st, tkey, new_size)
             st2 == resize(st1, ckey, new_size)
             st3 == write_slice(st2, tkey, tmp_ctr, new_size,
                                board_time_data[sn][sensor])
             st4 == write_slice(st3, ckey, tmp_ctr, new_size,
                                board_cap_data[sn][sensor])
         IN append_batch(st4, Tail(paths))

_append_data ==
    append_batch([data |-> h5_data, raised |-> FALSE], SensorPaths)

\* the flush test taken one iteration early
FlushKind_early ==
    IF loop_counter + 1 = HISTORY_SIZE THEN "initial"
    ELSE IF loop_counter + 1 > 0 /\ (loop_counter + 1) % HISTORY_SIZE = 0 THEN "append"
    ELSE "none"

\* which flush the loop performs after the appends of an iteration
FlushKind ==
    IF loop_counter = HISTORY_SIZE THEN "initial"
    ELSE IF loop_counter > 0 /\ loop_counter % HISTORY_SIZE = 0 THEN "append"
    ELSE "none"

\* ------------------------------------------------------- the recording task
\* the join awaited instead of blocked on
AwaitPoints_join == {"sleep", "join"}

\* the only await of record_sensors: asyncio.sleep(0) at the head of the loop
AwaitPoints == {"sleep"}

Terminal == {"done", "failed", "cancelled"}

\* recording_task.done()
TaskDone == pc \in Terminal

\* code of the event-loop thread other than the recording task runs only
\* while that task is not started, suspended at an await, or finished
HandlerMayRun == pc \in {"none", "created"} \cup AwaitPoints \cup Terminal

\* the tag of the samples read in the current iteration
ReadTag == loop_counter + 1

\* the boards found by the hardware scan: none, or the first few in serial order
ConnectedBoards ==
    {{BoardOrder[i] : i \in 1..n} : n \in 0..Min(MaxBoards, Len(BoardOrder))}

\* the state of the recording program before any session
InitSession ==
    /\ controllers \in ConnectedBoards
    /\ layout_rows = 0
    /\ comments = ""
    /\ sensor_states = [i \in SensorIds |-> SensorState]
    /\ recording_all = FALSE
    /\ session = 0
    /\ has_recorder = FALSE
    /\ recording = FALSE
    /\ loop_counter = 0
    /\ board_time_data = NoBuffers
    /\ board_cap_data = NoBuffers
    /\ h5_exists = FALSE
    /\ h5_groups = {}
    /\ h5_data = NoData
    /\ h5_meta = NoData
    /\ h5_comments = <<>>
    /\ pc = "none"
    /\ cancel_pending = FALSE
    /\ futures = <<>>
    /\ fut = [sn \in controllers |-> NoFuture]
    /\ results = <<>>
    /\ flushed = "none"
    /\ call = NoCall

\* no detection algorithm has been handed any data
NoDetection ==
    /\ algorithm = "basic_threshold"
    /\ subjects = NoData
    /\ detected = NoData

Init ==
    /\ InitSession
    /\ raw_h5f = NoData
    /\ data_dict = NoData
    /\ filtered_h5f = NoData
    /\ analysis_pc = "idle"
    /\ NoDetection

UIState == <<controllers, call, AnalysisState, layout_rows, comments, sensor_states, recording_all,
            session, has_recorder>>

FileState == <<h5_exists, h5_groups, h5_data, h5_meta, h5_comments>>

BufferState == <<board_time_data, board_cap_data>>

JoinState == <<futures, fut, results>>

\* first step of the task: record_sensors up to its first await, or the
\* delivery of a cancellation requested before the task ever ran
TaskStart ==
    /\ pc = "created"
    /\ IF cancel_pending
       THEN /\ pc' = "cancelled"
            /\ cancel_pending' = FALSE
            /\ UNCHANGED <<recording, loop_counter, FileState>>
       ELSE /\ recording' = TRUE
            /\ loop_counter' = 0
            \* initialize_hdf5_file: h5py.File(filename, "w")
            /\ h5_exists' = TRUE
            /\ h5_groups' = {SensorPaths[i] : i \in 1..Len(SensorPaths)}
            /\ h5_data' = NoData
            /\ h5_meta' = NoData
            /\ h5_comments' = <<>>
            /\ pc' = IF recording' THEN "sleep" ELSE "done"
            /\ UNCHANGED cancel_pending
    /\ UNCHANGED <<UIState, BufferState, JoinState, flushed>>

\* the task resumes from asyncio.sleep(0): a pending cancellation is raised
\* there, otherwise one read per board is submitted to the executor
ResumeUpTo(cap) ==
    /\ pc = "sleep"
    /\ IF cancel_pending
       THEN /\ pc' = "cancelled"
            /\ cancel_pending' = FALSE
            /\ UNCHANGED <<JoinState, flushed>>
       ELSE /\ (loop_counter < cap \/ ~recording)
            /\ futures' = ControllerKeys
            /\ fut' = [sn \in controllers |->
                          [status |-> "running", time |-> <<>>, cap |-> <<>>]]
            /\ results' = <<>>
            /\ flushed' = "none"
            /\ pc' = "join"
            /\ UNCHANGED cancel_pending
    /\ UNCHANGED <<UIState, recording, loop_counter, BufferState, FileState>>

Resume == ResumeUpTo(MaxLoops)

\* a worker thread completes read_sensor_data(sn)
ReadReturn(sn) ==
    /\ sn \in controllers
    /\ fut[sn].status = "running"
    /\ LET r == read_sensor_data(sn, ReadTag)
       IN fut' = [fut EXCEPT ![sn] = [status |-> "ok", time |-> r.time, cap |-> r.cap]]
    /\ UNCHANGED <<UIState, recording, loop_counter, BufferState, FileState, pc,
                   cancel_pending, futures, results, flushed>>

\* a worker thread's read_sensor_data(sn) raises
ReadFail(sn) ==
    /\ sn \in controllers
    /\ fut[sn].status = "running"
    /\ fut' = [fut EXCEPT ![sn] = [status |-> "err", time |-> <<>>, cap |-> <<>>]]
    /\ UNCHANGED <<UIState, recording, loop_counter, BufferState, FileState, pc,
                   cancel_pending, futures, results, flushed>>

\* a join that goes on after the first result
AwaitResult_first ==
    /\ pc = "join"
    /\ Len(results) < Len(futures)
    /\ LET sn == futures[Len(results) + 1]
       IN /\ fut[sn].status \in {"ok", "err"}
          /\ IF fut[sn].status = "ok"
             THEN /\ results' = Append(results,
                         [time |-> fut[sn].time, cap |-> fut[sn].cap, sn |-> sn])
                  /\ pc' = "append"
             ELSE /\ pc' = "unwind"
                  /\ UNCHANGED results
    /\ UNCHANGED <<UIState, recording, loop_counter, BufferState, FileState,
                   cancel_pending, futures, fut, flushed>>

\* results = [future.result() for future in futures]: the next future in
\* submission order is waited for; its exception is raised here
AwaitResult ==
    /\ pc = "join"
    /\ Len(results) < Len(futures)
    /\ LET sn == futures[Len(results) + 1]
       IN /\ fut[sn].status \in {"ok", "err"}
          /\ IF fut[sn].status = "ok"
             THEN /\ results' = Append(results,
                         [time |-> fut[sn].time, cap |-> fut[sn].cap, sn |-> sn])
                  /\ pc' = IF Len(results') = Len(futures) THEN "append" ELSE "join"
             ELSE /\ pc' = "unwind"
                  /\ UNCHANGED results
    /\ UNCHANGED <<UIState, recording, loop_counter, BufferState, FileState,
                   cancel_pending, futures, fut, flushed>>

\* one result appended to the deques of its board's sensors
AppendResult(buf, r, field) ==
    [sn \in DOMAIN buf |->
        IF sn = r.sn
        THEN [s \in DOMAIN buf[sn] |->
                 DequeAppend(buf[sn][s], r[field][IndexOf(Sensors(sn), s)])]
        ELSE buf[sn]]

RECURSIVE AppendResults(_, _, _)
AppendResults(buf, rs, field) ==
    IF rs = <<>> THEN buf
    ELSE AppendResults(AppendResult(buf, Head(rs), field), Tail(rs), field)

\* a stop flag tested between the join and the appends
AppendBuffers_break ==
    /\ pc = "append"
    /\ IF recording
       THEN /\ board_time_data' = AppendResults(board_time_data, results, "time")
            /\ board_cap_data' = AppendResults(board_cap_data, results, "cap")
            /\ pc' = "flush"
       ELSE /\ pc' = "done"
            /\ UNCHANGED BufferState
    /\ UNCHANGED <<UIState, recording, loop_counter, FileState, cancel_pending,
                   JoinState, flushed>>

\* "for local_time, local_cap, serial_number in results": buffer appends
AppendBuffers ==
    /\ pc = "append"
    /\ board_time_data' = AppendResults(board_time_data, results, "time")
    /\ board_cap_data' = AppendResults(board_cap_data, results, "cap")
    /\ pc' = "flush"
    /\ UNCHANGED <<UIState, recording, loop_counter, FileState, cancel_pending,
                   JoinState, flushed>>

\* the write to the HDF5 file every HISTORY_SIZE loops
Flush ==
    /\ pc = "flush"
    /\ LET st == CASE FlushKind = "initial" -> _write_initial_data
                   [] FlushKind = "append" -> _append_data
                   [] OTHER -> [data |-> h5_data, raised |-> FALSE]
       IN /\ h5_data' = st.data
          /\ flushed' = FlushKind
          /\ pc' = IF st.raised THEN "unwind" ELSE "incr"
    /\ UNCHANGED <<UIState, recording, loop_counter, BufferState, h5_exists,
                   h5_groups, h5_meta, h5_comments, cancel_pending, JoinState>>

\* a loop that does not test the flag
Incr_forever ==
    /\ pc = "incr"
    /\ loop_counter' = loop_counter + 1
    /\ pc' = "sleep"
    /\ UNCHANGED <<UIState, recording, BufferState, FileState, cancel_pending,
                   JoinState, flushed>>

\* loop_counter += 1, then the loop test "while self.recording"
Incr ==
    /\ pc = "incr"
    /\ loop_counter' = loop_counter + 1
    /\ pc' = IF recording THEN "sleep" ELSE "done"
    /\ UNCHANGED <<UIState, recording, BufferState, FileState, cancel_pending,
                   JoinState, flushed>>

\* the exception logged and the loop continued
Unwind_swallow ==
    /\ pc = "unwind"
    /\ \A sn \in controllers : fut[sn].status # "running"
    /\ pc' = "sleep"
    /\ UNCHANGED <<UIState, recording, loop_counter, BufferState, FileState,
                   cancel_pending, JoinState, flushed>>

\* the exception handler of run_recording without the reset of recording_all
Unwind_keepflag ==
    /\ pc = "unwind"
    /\ \A sn \in controllers : fut[sn].status # "running"
    /\ pc' = "failed"
    /\ UNCHANGED <<UIState, recording, loop_counter, BufferState, FileState,
                   cancel_pending, JoinState, flushed>>

\* an exception leaves record_sensors: the executor's context manager waits
\* for the submitted reads, then run_recording's handler clears recording_all
Unwind ==
    /\ pc = "unwind"
    /\ \A sn \in controllers : fut[sn].status # "running"
    /\ recording_all' = FALSE
    /\ pc' = "failed"
    /\ UNCHANGED <<controllers, call, AnalysisState, layout_rows, comments, sensor_states, session,
                   has_recorder, recording, loop_counter, BufferState, FileState,
                   cancel_pending, JoinState, flushed>>

\* --------------------------------------------------------------- handlers
\* handle_layout_file: an empty layout is rejected, any other replaces the
\* stored one; the upload control is not offered while recording_all is set
HandleLayoutFile(rows) ==
    /\ HandlerMayRun
    /\ ~recording_all
    /\ layout_rows' = IF rows = 0 THEN layout_rows ELSE rows
    /\ UNCHANGED <<controllers, call, AnalysisState, comments, sensor_states, recording_all, session,
                   has_recorder, recording, loop_counter, BufferState, FileState, pc,
                   cancel_pending, JoinState, flushed>>

\* the comments input: state.comments.set
SetComments(text) ==
    /\ HandlerMayRun
    /\ comments # text
    /\ comments' = text
    /\ UNCHANGED <<controllers, call, AnalysisState, layout_rows, sensor_states, recording_all, session,
                   has_recorder, recording, loop_counter, BufferState, FileState, pc,
                   cancel_pending, JoinState, flushed>>

StartRejected_nolayout == controllers = {} \/ recording_all

\* the three prerequisite checks of start_recording
StartRejected == controllers = {} \/ recording_all \/ layout_rows = 0

\* start_recording: a new SensorRecorder and a new task for run_recording
StartRecording ==
    /\ HandlerMayRun
    /\ IF StartRejected
       THEN UNCHANGED <<recording_all, session, has_recorder, recording,
                        loop_counter, BufferState, FileState, pc,
                        cancel_pending, JoinState, flushed>>
       ELSE /\ session < MaxSessions
            /\ recording_all' = TRUE
            /\ session' = session + 1
            /\ has_recorder' = TRUE
            \* SensorRecorder.__init__
            /\ recording' = FALSE
            /\ loop_counter' = 0
            /\ board_time_data' = EmptyBuffers
            /\ board_cap_data' = EmptyBuffers
            \* a file name not used before
            /\ h5_exists' = FALSE
            /\ h5_groups' = {}
            /\ h5_data' = NoData
            /\ h5_meta' = NoData
            /\ h5_comments' = <<>>
            \* asyncio.create_task(run_recording())
            /\ pc' = "created"
            /\ cancel_pending' = FALSE
            /\ futures' = <<>>
            /\ fut' = [sn \in controllers |-> NoFuture]
            /\ results' = <<>>
            /\ flushed' = "none"
    /\ UNCHANGED <<controllers, call, AnalysisState, layout_rows, comments, sensor_states>>

\* SensorRecorder.stop
stop == FALSE

\* wall-clock reading of time.time(), in units of completed reads
Now == loop_counter

\* the board of a sensor, as write_sensor_metadata looks it up
BoardOf(sensor_id) == CHOOSE sn \in Boards : sensor_id \in SensorSet(sn)

\* dataset name of a metadata field: bare for cycle 0, cycle-suffixed after
DatasetName(base, cycle) == IF cycle = 0 THEN <<base>> ELSE <<base, cycle>>

\* the parts of the file that the metadata writers touch
\* f = [groups, meta, comments, raised]
TheFile ==
    [groups |-> h5_groups, meta |-> h5_meta, comments |-> h5_comments,
     raised |-> FALSE]

write_once_replace(meta, key, args, field) ==
    IF field \in DOMAIN args
    THEN [k \in (DOMAIN meta) \cup {key} |->
             IF k = key THEN args[field] ELSE meta[k]]
    ELSE meta

\* write of a time stamp: only when provided and not already present
write_once(meta, key, args, field) ==
    IF field \in DOMAIN args /\ key \notin DOMAIN meta
    THEN (key :> args[field]) @@ meta ELSE meta

write_positive_once(meta, key, args, field) ==
    IF field \in DOMAIN args /\ args[field] > 0 /\ key \notin DOMAIN meta
    THEN (key :> args[field]) @@ meta ELSE meta

\* write of a volume or weight: only when provided and > 0, replacing
write_positive(meta, key, args, field) ==
    IF field \in DOMAIN args /\ args[field] > 0
    THEN [k \in (DOMAIN meta) \cup {key} |->
             IF k = key THEN args[field] ELSE meta[k]]
    ELSE meta

\* SensorRecorder.write_sensor_metadata; args maps the provided keyword
\* arguments to their values.  Raises when no board owns the sensor, when
\* the file does not exist, or when the board group is absent.
write_sensor_metadata(f, sensor_id, args, cycle) ==
    IF f.raised THEN f
    ELSE IF ~(\E sn \in Boards : sensor_id \in SensorSet(sn)) \/ ~h5_exists
    THEN [f EXCEPT !.raised = TRUE]
    ELSE LET sn == BoardOf(sensor_id)
             grp == <<sn, sensor_id>>
         IN IF grp \notin f.groups /\ sn \notin controllers
            THEN [f EXCEPT !.raised = TRUE]
            ELSE LET key(base) == <<sn, sensor_id, DatasetName(base, cycle)>>
                     m1 == write_once(f.meta, key("start_time"), args, "start_time")
                     m2 == write_once(m1, key("stop_time"), args, "stop_time")
                     m3 == write_positive(m2, key("start_vol"), args, "start_vol")
                     m4 == write_positive(m3, key("stop_vol"), args, "stop_vol")
                     m5 == write_positive(m4, key("weight"), args, "weight")
                 IN [f EXCEPT !.groups = @ \cup {grp}, !.meta = m5]

\* SensorRecorder.write_comments: opens the file "r+", which raises when the
\* file does not exist; replaces the comments dataset
write_comments(f, text) ==
    IF f.raised THEN f
    ELSE IF ~h5_exists THEN [f EXCEPT !.raised = TRUE]
    ELSE [f EXCEPT !.comments = <<text>>]

\* stop_recording, first loop: the stop time of every sensor still recording
RECURSIVE write_stop_times(_, _)
write_stop_times(f, ids) ==
    IF ids = <<>> \/ f.raised THEN f
    ELSE LET sensor == sensor_states[Head(ids)]
             f1 == IF sensor.is_recording /\ has_recorder
                   THEN write_sensor_metadata(f, Head(ids),
                            [a \in {"stop_time"} |-> Now], sensor.recording_cycle)
                   ELSE f
         IN write_stop_times(f1, Tail(ids))

\* stop_recording, first loop: the sensors still recording become idle and
\* their cycle number advances
stopped_sensors ==
    [i \in SensorIds |->
        IF sensor_states[i].is_recording
        THEN [sensor_states[i] EXCEPT !.is_recording = FALSE,
                                      !.recording_cycle = @ + 1]
        ELSE sensor_states[i]]

\* stop_recording, second loop, one sensor: volume and weight for each of
\* its cycles 0 .. recording_cycle - 1
RECURSIVE write_cycles(_, _, _, _)
write_cycles(f, sensor_id, sensor, cycle) ==
    IF cycle >= sensor.recording_cycle \/ f.raised THEN f
    ELSE write_cycles(
             write_sensor_metadata(f, sensor_id,
                 [a \in {"start_vol", "stop_vol", "weight"} |->
                     CASE a = "start_vol" -> sensor.start_volume
                       [] a = "stop_vol" -> sensor.stop_volume
                       [] OTHER -> sensor.weight],
                 cycle),
             sensor_id, sensor, cycle + 1)

\* stop_recording, second loop over all sensors
RECURSIVE write_volumes(_, _, _)
write_volumes(f, sensors, ids) ==
    IF ids = <<>> \/ f.raised THEN f
    ELSE write_volumes(write_cycles(f, Head(ids), sensors[Head(ids)], 0),
                       sensors, Tail(ids))

SensorIdSeq == [i \in 1..24 |-> i]

StopRecording_nocancel ==
    /\ HandlerMayRun
    /\ IF ~recording_all
       THEN UNCHANGED <<sensor_states, recording_all, recording, h5_groups,
                        h5_meta, h5_comments, cancel_pending>>
       ELSE LET f1 == write_stop_times(TheFile, SensorIdSeq)
                f2 == IF has_recorder
                      THEN write_volumes(f1, stopped_sensors, SensorIdSeq)
                      ELSE f1
                f3 == IF has_recorder /\ comments # ""
                      THEN write_comments(f2, comments) ELSE f2
            IN /\ h5_groups' = f3.groups
               /\ h5_meta' = f3.meta
               /\ h5_comments' = f3.comments
               /\ sensor_states' = IF f1.raised THEN sensor_states
                                   ELSE stopped_sensors
               /\ IF f3.raised
                  THEN UNCHANGED <<recording_all, recording, cancel_pending>>
                  ELSE /\ UNCHANGED <<recording, cancel_pending>>
                       /\ recording_all' = FALSE
    /\ UNCHANGED <<controllers, call, AnalysisState, layout_rows, comments, session, has_recorder,
                   loop_counter, BufferState, h5_exists, h5_data, pc,
                   JoinState, flushed>>

\* stop_recording.  An exception raised by a write to the file leaves the
\* handler at that point: what was written stays, the rest is not executed.
StopRecording ==
    /\ HandlerMayRun
    /\ IF ~recording_all
       THEN UNCHANGED <<sensor_states, recording_all, recording, h5_groups,
                        h5_meta, h5_comments, cancel_pending>>
       ELSE LET f1 == write_stop_times(TheFile, SensorIdSeq)
                f2 == IF has_recorder
                      THEN write_volumes(f1, stopped_sensors, SensorIdSeq)
                      ELSE f1
                f3 == IF has_recorder /\ comments # ""
                      THEN write_comments(f2, comments) ELSE f2
            IN /\ h5_groups' = f3.groups
               /\ h5_meta' = f3.meta
               /\ h5_comments' = f3.comments
               /\ sensor_states' = IF f1.raised THEN sensor_states
                                   ELSE stopped_sensors
               /\ IF f3.raised
                  THEN UNCHANGED <<recording_all, recording, cancel_pending>>
                  ELSE /\ recording' = IF has_recorder THEN stop ELSE recording
                       /\ cancel_pending' = IF pc # "none" /\ ~TaskDone
                                            THEN TRUE ELSE cancel_pending
                       /\ recording_all' = FALSE
    /\ UNCHANGED <<controllers, call, AnalysisState, layout_rows, comments, session, has_recorder,
                   loop_counter, BufferState, h5_exists, h5_data, pc,
                   JoinState, flushed>>

\* SensorRecorder.stop called on the recorder whose loop is running
Stop ==
    /\ HandlerMayRun
    /\ pc \in AwaitPoints
    /\ recording
    /\ recording' = stop
    /\ UNCHANGED <<UIState, loop_counter, BufferState, FileState, pc,
                   cancel_pending, JoinState, flushed>>

Next ==
    \/ TaskStart
    \/ Resume
    \/ \E sn \in Boards : ReadReturn(sn)
    \/ \E sn \in Boards : ReadFail(sn)
    \/ AwaitResult
    \/ AppendBuffers
    \/ Flush
    \/ Incr
    \/ Unwind
    \/ \E rows \in 0..1 : HandleLayoutFile(rows)
    \/ \E text \in CommentTexts : SetComments(text)
    \/ StartRecording
    \/ StopRecording
    \/ Stop

Spec == Init /\ [][Next]_vars

\* the same program, followed over its first FairLoops iterations only
ResumeFair == ResumeUpTo(FairLoops)

\* the steps of the recording task on the event-loop thread
TaskStepFair ==
    TaskStart \/ ResumeFair \/ AwaitResult \/ AppendBuffers \/ Flush \/ Incr \/ Unwind

NextFair ==
    \/ TaskStart
    \/ ResumeFair
    \/ \E sn \in Boards : ReadReturn(sn)
    \/ \E sn \in Boards : ReadFail(sn)
    \/ AwaitResult
    \/ AppendBuffers
    \/ Flush
    \/ Incr
    \/ Unwind
    \/ \E rows \in 0..1 : HandleLayoutFile(rows)
    \/ \E text \in CommentTexts : SetComments(text)
    \/ StartRecording
    \/ StopRecording
    \/ Stop

\* the event loop runs a ready task, and every submitted read completes
FairSpec ==
    /\ Init
    /\ [][NextFair]_vars
    /\ WF_vars(TaskStepFair)
    /\ \A sn \in Boards : WF_vars(ReadReturn(sn) \/ ReadFail(sn))

\* ------------------------------------------------- the metadata writers
\* the dataset of a field of a sensor's cycle
MetaKey(sensor_id, field, cycle) ==
    <<BoardOf(sensor_id), sensor_id, DatasetName(field, cycle)>>

\* the content of a scalar dataset: <<value>>, or <<>> when absent
Stored(meta, k) == IF k \in DOMAIN meta THEN <<meta[k]>> ELSE <<>>

\* the values a keyword argument of write_sensor_metadata may take
ValuesOf(field) == IF field \in TimeFields THEN TimeStamps ELSE Volumes

\* current_recorder.write_sensor_metadata(sensor_id, <field>=value, cycle=cycle)
\* called with one keyword argument
WriteSensorMetadata(sensor_id, field, value, cycle) ==
    /\ HandlerMayRun
    /\ has_recorder
    /\ LET f == write_sensor_metadata(TheFile, sensor_id, (field :> value), cycle)
       IN /\ Cardinality(DOMAIN f.meta) <= MaxFields
          /\ h5_groups' = f.groups
          /\ h5_meta' = f.meta
          /\ call' = [sensor_id |-> sensor_id, cycle |-> cycle, field |-> field,
                      value |-> value,
                      before |-> Stored(h5_meta, MetaKey(sensor_id, field, cycle)),
                      raised |-> f.raised]
    /\ UNCHANGED <<controllers, AnalysisState, layout_rows, comments, sensor_states,
                   recording_all, session, has_recorder, recording, loop_counter,
                   BufferState, h5_exists, h5_data, h5_comments, pc, cancel_pending,
                   JoinState, flushed>>

\* a session is started and its store opened; the writer is then called directly
NextMeta ==
    \/ HandleLayoutFile(1)
    \/ StartRecording
    \/ TaskStart
    \/ \E sensor_id \in CardSensors, field \in TimeFields \cup VolumeFields,
          cycle \in MetadataCycles :
            \E value \in ValuesOf(field) :
                WriteSensorMetadata(sensor_id, field, value, cycle)

\* the first board is connected, the others are not
InitMeta == Init /\ controllers = {BoardOrder[1]}

MetaSpec == InitMeta /\ [][NextMeta]_vars

\* --------------------------------------------------------- sensor cards
\* start_sensor: the card's start button
StartSensor(sensor_id) ==
    /\ HandlerMayRun
    /\ IF ~recording_all \/ ~has_recorder \/ sensor_states[sensor_id].is_recording
       THEN UNCHANGED <<sensor_states, h5_groups, h5_meta>>
       ELSE LET current_cycle == sensor_states[sensor_id].recording_cycle
                f == write_sensor_metadata(TheFile, sensor_id,
                         ("start_time" :> Now), current_cycle)
            IN /\ current_cycle < MaxCycles
               /\ h5_groups' = f.groups
               /\ h5_meta' = f.meta
               /\ sensor_states' =
                      IF f.raised THEN sensor_states
                      ELSE [sensor_states EXCEPT ![sensor_id].is_recording = TRUE]
    /\ UNCHANGED <<controllers, call, AnalysisState, layout_rows, comments, recording_all, session,
                   has_recorder, recording, loop_counter, BufferState, h5_exists,
                   h5_data, h5_comments, pc, cancel_pending, JoinState, flushed>>

\* stop_sensor: the card's stop button
StopSensor(sensor_id) ==
    /\ HandlerMayRun
    /\ IF ~sensor_states[sensor_id].is_recording
       THEN UNCHANGED <<sensor_states, h5_groups, h5_meta>>
       ELSE LET current_cycle == sensor_states[sensor_id].recording_cycle
                f == IF has_recorder
                     THEN write_sensor_metadata(TheFile, sensor_id,
                              ("stop_time" :> Now), current_cycle)
                     ELSE TheFile
            IN /\ h5_groups' = f.groups
               /\ h5_meta' = f.meta
               /\ sensor_states' =
                      IF f.raised THEN sensor_states
                      ELSE [sensor_states EXCEPT
                               ![sensor_id].is_recording = FALSE,
                               ![sensor_id].recording_cycle = current_cycle + 1]
    /\ UNCHANGED <<controllers, call, AnalysisState, layout_rows, comments, recording_all, session,
                   has_recorder, recording, loop_counter, BufferState, h5_exists,
                   h5_data, h5_comments, pc, cancel_pending, JoinState, flushed>>

\* the program with its sensor cards, followed over its first CardLoops iterations
ResumeCard == ResumeUpTo(CardLoops)

NextCard ==
    \/ TaskStart
    \/ ResumeCard
    \/ \E sn \in Boards : ReadReturn(sn)
    \/ \E sn \in Boards : ReadFail(sn)
    \/ AwaitResult
    \/ AppendBuffers
    \/ Flush
    \/ Incr
    \/ Unwind
    \/ \E rows \in 0..1 : HandleLayoutFile(rows)
    \/ \E text \in CommentTexts : SetComments(text)
    \/ StartRecording
    \/ StopRecording
    \/ Stop
    \/ \E sensor_id \in CardSensors : StartSensor(sensor_id)
    \/ \E sensor_id \in CardSensors : StopSensor(sensor_id)

CardSpec == Init /\ [][NextCard]_vars

\* ------------------------------------------------- volume and weight inputs
\* set_start_vol: the card's start volume input
SetStartVol(sensor_id, value) ==
    /\ HandlerMayRun
    /\ sensor_states' = [sensor_states EXCEPT ![sensor_id].start_volume = value]
    /\ UNCHANGED <<controllers, call, AnalysisState, layout_rows, comments, recording_all, session,
                   has_recorder, recording, loop_counter, BufferState, FileState,
                   pc, cancel_pending, JoinState, flushed>>

\* set_stop_vol: the card's stop volume input
SetStopVol(sensor_id, value) ==
    /\ HandlerMayRun
    /\ sensor_states' = [sensor_states EXCEPT ![sensor_id].stop_volume = value]
    /\ UNCHANGED <<controllers, call, AnalysisState, layout_rows, comments, recording_all, session,
                   has_recorder, recording, loop_counter, BufferState, FileState,
                   pc, cancel_pending, JoinState, flushed>>

\* set_weight: the card's weight input
SetWeight(sensor_id, value) ==
    /\ HandlerMayRun
    /\ sensor_states' = [sensor_states EXCEPT ![sensor_id].weight = value]
    /\ UNCHANGED <<controllers, call, AnalysisState, layout_rows, comments, recording_all, session,
                   has_recorder, recording, loop_counter, BufferState, FileState,
                   pc, cancel_pending, JoinState, flushed>>

\* the sensor whose volume and weight inputs are followed, and the values typed
VolumeSensors == {1}

TypedValues == {0, 1}

\* the program with the inputs of one card, followed over its first
\* CardLoops iterations
NextVolume ==
    \/ TaskStart
    \/ ResumeCard
    \/ \E sn \in Boards : ReadReturn(sn)
    \/ \E sn \in Boards : ReadFail(sn)
    \/ AwaitResult
    \/ AppendBuffers
    \/ Flush
    \/ Incr
    \/ Unwind
    \/ HandleLayoutFile(1)
    \/ StartRecording
    \/ StopRecording
    \/ \E sensor_id \in VolumeSensors : StartSensor(sensor_id)
    \/ \E sensor_id \in VolumeSensors : StopSensor(sensor_id)
    \/ \E sensor_id \in VolumeSensors, value \in TypedValues : SetStartVol(sensor_id, value)
    \/ \E sensor_id \in VolumeSensors, value \in TypedValues : SetStopVol(sensor_id, value)
    \/ \E sensor_id \in VolumeSensors, value \in TypedValues : SetWeight(sensor_id, value)

VolumeSpec == InitMeta /\ [][NextVolume]_vars

\* ------------------------------------------------------ offline analysis
\* dataset names as text, one character per element
NameOf(base) ==
    CASE base = "start_time" -> <<"s", "t", "a", "r", "t", "_", "t", "i", "m", "e">>
      [] base = "stop_time" -> <<"s", "t", "o", "p", "_", "t", "i", "m", "e">>
      [] base = "start_vol" -> <<"s", "t", "a", "r", "t", "_", "v", "o", "l">>
      [] base = "stop_vol" -> <<"s", "t", "o", "p", "_", "v", "o", "l">>
      [] base = "weight" -> <<"w", "e", "i", "g", "h", "t">>
      [] base = "time_data" -> <<"t", "i", "m", "e", "_", "d", "a", "t", "a">>
      [] base = "cap_data" -> <<"c", "a", "p", "_", "d", "a", "t", "a">>

DigitChars == <<"0", "1", "2", "3", "4", "5", "6", "7", "8", "9">>

\* str(n) of a non-negative integer, as the f-string formats the cycle
RECURSIVE str(_)
str(n) ==
    IF n < 10 THEN <<DigitChars[n + 1]>>
    ELSE str(n \div 10) \o <<DigitChars[(n % 10) + 1]>>

\* the text of a dataset name: "start_time" if cycle == 0 else f"start_time{cycle}"
NameText(name) ==
    IF Len(name) = 1 THEN NameOf(name[1]) ELSE NameOf(name[1]) \o str(name[2])

IsDigit(c) == \E i \in 1..10 : DigitChars[i] = c

\* int(text) of a run of decimal digits
RECURSIVE int(_)
int(ds) ==
    IF ds = <<>> THEN 0
    ELSE 10 * int(SubSeq(ds, 1, Len(ds) - 1))
         + (CHOOSE i \in 1..10 : DigitChars[i] = ds[Len(ds)]) - 1

\* re.compile(r'^start_time(\d+)?$').match(k), then
\* int(m.group(1)) if m.group(1) else -1: <<num>>, or <<>> when k does not match
match_start(k) ==
    LET prefix == NameOf("start_time")
    IN IF /\ Len(k) >= Len(prefix)
          /\ SubSeq(k, 1, Len(prefix)) = prefix
          /\ \A i \in (Len(prefix) + 1)..Len(k) : IsDigit(k[i])
       THEN <<IF Len(k) = Len(prefix) THEN -1
              ELSE int(SubSeq(k, Len(prefix) + 1, Len(k)))>>
       ELSE <<>>

stop_name_bare(last_start) == NameOf("stop_time")

\* 'stop' + last_start[5:]
stop_name(last_start) ==
    <<"s", "t", "o", "p">> \o SubSeq(last_start, 6, Len(last_start))

abs(x) == IF x < 0 THEN -x ELSE x

\* np.argmin(np.abs(a - x)) of a non-empty array: the first index of the minimum
argmin(a, x) ==
    (CHOOSE i \in 1..Len(a) :
        /\ \A j \in 1..Len(a) : abs(a[i] - x) <= abs(a[j] - x)
        /\ \A j \in 1..(i - 1) : abs(a[j] - x) > abs(a[i] - x)) - 1

\* a[lo:hi] for 0 <= lo and 0 <= hi <= len(a)
slice(a, lo, hi) == SubSeq(a, lo + 1, hi)

\* the result of the loop body for a sensor that raised
Raised(error) ==
    [raised |-> TRUE, error |-> error, start_time |-> 0, stop_time |-> 0,
     used_start_idx |-> 0, used_stop_idx |-> 0, time_data |-> <<>>,
     cap_data |-> <<>>, fs |-> <<>>, consumed_vol |-> <<>>]

\* the key of the highest-numbered start time of a sensor group (matches[num]
\* for the largest num), or <<>> when no key matches
last_start_of(sensor_data) ==
    LET matches == {k \in DOMAIN sensor_data : match_start(k) # <<>>}
    IN IF matches = {} THEN <<>>
       ELSE CHOOSE k \in matches :
                \A j \in matches : match_start(j)[1] <= match_start(k)[1]

\* filter_data, loop body from fs on: the sampling rate, the consumed volume
\* and the indices used
derive(sensor_data, start_time, stop_time, start_idx, stop_idx, time_data) ==
    IF time_data = <<>> THEN Raised("IndexError")
    ELSE IF /\ NameOf("stop_vol") \in DOMAIN sensor_data
            /\ NameOf("start_vol") \notin DOMAIN sensor_data
    THEN Raised("KeyError")
    ELSE [raised |-> FALSE, error |-> "",
          start_time |-> start_time, stop_time |-> stop_time,
          used_start_idx |-> start_idx, used_stop_idx |-> stop_idx,
          time_data |-> time_data,
          cap_data |->
              slice(sensor_data[NameOf("cap_data")], start_idx,
                    Min(stop_idx, Len(sensor_data[NameOf("cap_data")]))),
          fs |-> <<stop_idx - start_idx,
                   time_data[Len(time_data)] - time_data[1]>>,
          consumed_vol |->
              IF NameOf("stop_vol") \in DOMAIN sensor_data
              THEN <<sensor_data[NameOf("start_vol")]
                     - sensor_data[NameOf("stop_vol")]>>
              ELSE <<>>]

\* filter_data, loop body: time_data[start_idx:stop_idx] - time_data[start_idx]
\* and cap_data[start_idx:stop_idx]
cut(sensor_data, start_time, stop_time, start_idx, stop_idx) ==
    IF NameOf("cap_data") \notin DOMAIN sensor_data THEN Raised("KeyError")
    ELSE derive(sensor_data, start_time, stop_time, start_idx, stop_idx,
             [i \in 1..(stop_idx - start_idx) |->
                 sensor_data[NameOf("time_data")][start_idx + i]
                 - sensor_data[NameOf("time_data")][start_idx + 1]])

\* filter_data, loop body: the indices nearest to the start and stop instants
nearest(sensor_data, start_time, stop_time) ==
    IF NameOf("time_data") \notin DOMAIN sensor_data THEN Raised("KeyError")
    ELSE IF sensor_data[NameOf("time_data")] = <<>> THEN Raised("ValueError")
    ELSE cut(sensor_data, start_time, stop_time,
             argmin(sensor_data[NameOf("time_data")], start_time),
             argmin(sensor_data[NameOf("time_data")], stop_time))

\* filter_data, loop body: the start and stop instants.  The stop time of the
\* last start is used when recorded; otherwise, and when no start time was
\* recorded, the first and last time stamps of the series stand in
instants(sensor_data, last_start) ==
    IF last_start # <<>> /\ stop_name(last_start) \in DOMAIN sensor_data
    THEN nearest(sensor_data, sensor_data[last_start],
                 sensor_data[stop_name(last_start)])
    ELSE IF NameOf("time_data") \notin DOMAIN sensor_data THEN Raised("KeyError")
    ELSE IF sensor_data[NameOf("time_data")] = <<>> THEN Raised("IndexError")
    ELSE nearest(sensor_data,
                 IF last_start # <<>> THEN sensor_data[last_start]
                 ELSE sensor_data[NameOf("time_data")][1],
                 sensor_data[NameOf("time_data")]
                     [Len(sensor_data[NameOf("time_data")])])

\* filter_data, the body of the loop over the sensors of the raw store:
\* the window of one sensor, or the exception raised on the way
truncate(sensor_data) == instants(sensor_data, last_start_of(sensor_data))

\* the sensor groups of a store in the order h5py iterates them
GroupsOf(store) ==
    SelectSeq(PathsOf(BoardOrder), LAMBDA path : path \in DOMAIN store)

\* filter_data, the loop over the sensors: it ends at the first exception
RECURSIVE truncate_all(_, _, _)
truncate_all(store, paths, done) ==
    IF paths = <<>> THEN done
    ELSE LET r == truncate(store[Head(paths)])
             next == (Head(paths) :> r) @@ done
         IN IF r.raised THEN next ELSE truncate_all(store, Tail(paths), next)

\* the sensor to animal assignment given to filter_data
sensor_animal_map == <<<<1, "A">>, <<4, "B">>>>

\* the sensor lists of filter_data's if / elif chain, in the order tested,
\* each with the board whose group is then read
board_lookup ==
    <<[sensors |-> <<1, 2, 3, 7, 8, 9>>, board |-> "FT232H0"],
      [sensors |-> <<4, 5, 6, 10, 11, 12>>, board |-> "FT232H1"],
      [sensors |-> <<13, 14, 15, 19, 20, 21>>, board |-> "FT232H2"],
      [sensors |-> <<16, 17, 18, 22, 23, 24>>, board |-> "FT232H3"]>>

\* the branches of the chain whose list holds the sensor
branches(sensor) ==
    {k \in 1..Len(board_lookup) :
        \E i \in 1..Len(board_lookup[k].sensors) : board_lookup[k].sensors[i] = sensor}

\* a lookup that reads the boards in the opposite order
board_id_reversed(sensor) ==
    IF branches(sensor) = {} THEN "unassigned"
    ELSE board_lookup[Len(board_lookup) + 1
                          - (CHOOSE k \in branches(sensor) :
                                \A l \in branches(sensor) : k <= l)].board

\* board_id: the board of the first branch that holds the sensor; no branch
\* assigns it for a sensor outside the four lists
board_id(sensor) ==
    IF branches(sensor) = {} THEN "unassigned"
    ELSE board_lookup[CHOOSE k \in branches(sensor) :
                          \A l \in branches(sensor) : k <= l].board

\* data_by_animal: a row whose sensor group is missing from the store is skipped
data_by_animal(dict) ==
    LET rows == {i \in 1..Len(sensor_animal_map) :
                    <<board_id(sensor_animal_map[i][1]), sensor_animal_map[i][1]>>
                        \in DOMAIN dict}
    IN [animal \in {sensor_animal_map[i][2] : i \in rows} |->
           LET i == CHOOSE j \in rows : sensor_animal_map[j][2] = animal
           IN dict[<<board_id(sensor_animal_map[i][1]), sensor_animal_map[i][1]>>]]

\* basic_algorithm: an animal is analysed when its window holds more than 3
\* different capacitance values
Analysed(data) == Cardinality({data.cap_data[i] : i \in 1..Len(data.cap_data)}) > 3

\* the elements of a set of integers in increasing order
sorted(S) ==
    [k \in 1..Cardinality(S) |->
        CHOOSE v \in S : Cardinality({w \in S : w < v}) = k - 1]

\* np.unique(trace)
unique(trace) == sorted({trace[i] : i \in 1..Len(trace)})

\* (unique_vals[:-1] + unique_vals[1:]) / 2.0, kept doubled so that the
\* midpoints stay integers: a value v lies below the threshold when 2v < thr
thresholds(unique_vals) ==
    [k \in 1..(Len(unique_vals) - 1) |-> unique_vals[k] + unique_vals[k + 1]]

\* a[i] for -len(a) <= i < len(a); a negative index counts from the end
at(a, i) == IF i < 0 THEN a[Len(a) + i + 1] ELSE a[i + 1]

\* a run of exactly max_lick_time kept
short_enough_inclusive(peak_t) == 6 * peak_t <= TicksPerSecond

\* max_lick_time = 1. / 6., in seconds; times are counted in ticks:
\* peak_t < max_lick_time
short_enough(peak_t) == 6 * peak_t < TicksPerSecond

scanned_from_zero(data) ==
    IF Cardinality({data.cap_data[i] : i \in 1..Len(data.cap_data)}) > 2
    THEN 0..(Len(thresholds(unique(data.cap_data))) - 1)
    ELSE {}

\* the threshold indices scanned for a trace: none unless it has more than 3
\* unique values, else range(2, len(thresholds))
scanned(data) ==
    IF Analysed(data)
    THEN 2..(Len(thresholds(unique(data.cap_data))) - 1)
    ELSE {}

\* (trace < thr).astype(np.int8) at sample i, from 0; thresholds are doubled
below(trace, thr, i) == IF 2 * trace[i + 1] < thr THEN 1 ELSE 0

\* np.diff((trace < thr).astype(np.int8)): entry k, from 0, compares the
\* samples k and k + 1
peak_trans(trace, thr) ==
    [k \in 1..(Len(trace) - 1) |-> below(trace, thr, k) - below(trace, thr, k - 1)]

\* np.where(a == v)[0]
where(a, v) ==
    LET found == SelectSeq([j \in 1..Len(a) |-> j], LAMBDA j : a[j] = v)
    IN [k \in 1..Len(found) |-> found[k] - 1]

\* a + 1 on an array of indices
plus_one(a) == [k \in 1..Len(a) |-> a[k] + 1]

\* run starts without the separate handling of the first time point
peak_starts_interior(trace, thr) == plus_one(where(peak_trans(trace, thr), 1))

\* np.where(peak_trans == 1)[0] + 1, with 0 in front when trace[0] < thr
peak_starts(trace, thr) ==
    IF below(trace, thr, 0) = 1
    THEN <<0>> \o plus_one(where(peak_trans(trace, thr), 1))
    ELSE plus_one(where(peak_trans(trace, thr), 1))

\* np.where(peak_trans == -1)[0], with len(trace) - 1 behind when trace[-1] < thr
peak_ends(trace, thr) ==
    IF below(trace, thr, Len(trace) - 1) = 1
    THEN where(peak_trans(trace, thr), -1) \o <<Len(trace) - 1>>
    ELSE where(peak_trans(trace, thr), -1)

good_peaks_shallow(trace, times, starts, ends, depth_thr) ==
    SelectSeq([p \in 1..Min(Len(starts), Len(ends)) |-> p - 1],
              LAMBDA p :
                  short_enough(times[ends[p + 1] + 1] - times[starts[p + 1] + 1]))

\* good_peaks: of the first min(size) peaks, those shorter than max_lick_time
\* that hold a sample below the threshold two steps lower
good_peaks(trace, times, starts, ends, depth_thr) ==
    SelectSeq([p \in 1..Min(Len(starts), Len(ends)) |-> p - 1],
              LAMBDA p :
                  /\ short_enough(times[ends[p + 1] + 1] - times[starts[p + 1] + 1])
                  /\ \E i \in starts[p + 1]..ends[p + 1] : 2 * trace[i + 1] < depth_thr)

\* int(np.argmin(peak_trace)): the first index of the minimum
first_min(a) ==
    (CHOOSE i \in 1..Len(a) :
        /\ \A k \in 1..Len(a) : a[i] <= a[k]
        /\ \A k \in 1..(i - 1) : a[k] > a[i]) - 1

peak_bins_start(trace, starts, ends, good) ==
    [j \in 1..Len(good) |-> starts[good[j] + 1]]

peak_bins_relative(trace, starts, ends, good) ==
    [j \in 1..Len(good) |->
        first_min(slice(trace, starts[good[j] + 1], ends[good[j] + 1] + 1))]

\* temp_peak_bins: ps_ + peak_rel_min for every good peak
peak_bins(trace, starts, ends, good) ==
    [j \in 1..Len(good) |->
        starts[good[j] + 1]
        + first_min(slice(trace, starts[good[j] + 1], ends[good[j] + 1] + 1))]

\* peak_bins[i_thr]: the body of the loop over the thresholds
bins_at(trace, times, thr, depth_thr) ==
    peak_bins(trace, peak_starts(trace, thr), peak_ends(trace, thr),
              good_peaks(trace, times, peak_starts(trace, thr),
                         peak_ends(trace, thr), depth_thr))

\* peak_bins of every scanned threshold
all_bins(data, thr_seq) ==
    [i_thr \in scanned(data) |->
        bins_at(data.cap_data, data.time_data,
                at(thr_seq, i_thr), at(thr_seq, i_thr - 2))]

best_last(bins) ==
    CHOOSE i \in DOMAIN bins :
        /\ \A k \in DOMAIN bins : Len(bins[k]) <= Len(bins[i])
        /\ \A k \in DOMAIN bins : k > i => Len(bins[k]) < Len(bins[i])

\* int(np.where(peaks_row == max_peaks)[0][0]): the first threshold index
\* with the largest number of peaks
best(bins) ==
    CHOOSE i \in DOMAIN bins :
        /\ \A k \in DOMAIN bins : Len(bins[k]) <= Len(bins[i])
        /\ \A k \in DOMAIN bins : k < i => Len(bins[k]) < Len(bins[i])

\* the lick fields of an animal's data before any algorithm has set them
NoLicks ==
    [fields |-> {}, lick_idxs |-> <<>>, lick_indices |-> <<>>,
     lick_times |-> <<>>, num_licks |-> 0, saved |-> FALSE]

\* basic_algorithm, the end of the loop body: nothing is set when no
\* threshold was scanned; else the peaks of the best threshold become the
\* licks (a single peak is stored as a scalar, held here as a list of one)
licks_from(data, bins) ==
    IF DOMAIN bins = {} THEN NoLicks
    ELSE [fields |-> {"lick_times", "num_licks", "lick_indices"},
          lick_idxs |-> <<>>,
          lick_indices |-> bins[best(bins)],
          lick_times |-> [j \in 1..Len(bins[best(bins)]) |->
                             data.time_data[bins[best(bins)][j] + 1]],
          num_licks |-> Len(bins[best(bins)]),
          saved |-> TRUE]

\* basic_algorithm, the body of the loop over the animals
basic_licks(data) ==
    licks_from(data, all_bins(data, thresholds(unique(data.cap_data))))

\* save_filtered_data: the group written for an animal
save_filtered_data(data, licks) ==
    [lick_times |-> licks.lick_times, lick_indices |-> licks.lick_indices,
     used_start_idx |-> data.used_start_idx,
     used_stop_idx |-> data.used_stop_idx,
     consumed_vol |-> data.consumed_vol]

\* basic_algorithm: the groups written to the output store
basic_algorithm(by_animal) ==
    [animal \in {a \in DOMAIN by_animal : basic_licks(by_animal[a]).saved} |->
        save_filtered_data(by_animal[animal], basic_licks(by_animal[animal]))]

\* filter_data(raw_h5f, filtered_h5f, sensor_animal_map, logfile), with the
\* default algorithm
FilterData ==
    /\ analysis_pc = "idle"
    /\ algorithm = "basic_threshold"
    /\ LET dict == truncate_all(raw_h5f, GroupsOf(raw_h5f), NoData)
           raised == \E path \in DOMAIN dict : dict[path].raised
       IN /\ data_dict' = dict
          /\ analysis_pc' = IF raised THEN "raised" ELSE "done"
          /\ subjects' = IF raised THEN subjects ELSE data_by_animal(dict)
          /\ detected' = [animal \in DOMAIN subjects' |->
                             basic_licks(subjects'[animal])]
          /\ filtered_h5f' = IF raised THEN filtered_h5f
                             ELSE basic_algorithm(subjects')
    /\ UNCHANGED <<controllers, call, raw_h5f, algorithm, layout_rows, comments,
                   sensor_states, recording_all, session, has_recorder,
                   recording, loop_counter, BufferState, FileState, pc,
                   cancel_pending, JoinState, flushed>>

\* the raw stores analysed: cycle numbers of the brackets a sensor may hold
AnalysisCycles == {0, 1, 10}

\* the time stamp of the i-th sample of a recorded series
SampleTime(i) == i

\* the start and stop time written for a cycle
BracketTime(field, cycle) ==
    IF field = "start_time"
    THEN (CASE cycle = 0 -> 1 [] cycle = 1 -> 2 [] OTHER -> 3)
    ELSE (CASE cycle = 0 -> 2 [] cycle = 1 -> 4 [] OTHER -> 5)

\* the volume entered for a sensor
VolumeOf(field) == IF field = "start_vol" THEN 10 ELSE 2

\* a sensor group as the recorder leaves it: the two series of n samples
\* (none when n < 0, the store never having been flushed), the start and stop
\* times of the given cycles and the given volumes, under the names
\* write_sensor_metadata gives them
SensorGroup(n, starts, stops, vols, varying) ==
    LET series == IF n < 0 THEN {} ELSE {"time_data", "cap_data"}
        entries ==
            {<<NameOf(b), IF b = "time_data" THEN [i \in 1..n |-> SampleTime(i)]
                          ELSE [i \in 1..n |-> IF varying THEN i ELSE 0]>> :
                b \in series}
            \cup {<<NameText(DatasetName("start_time", c)),
                    BracketTime("start_time", c)>> : c \in starts}
            \cup {<<NameText(DatasetName("stop_time", c)),
                    BracketTime("stop_time", c)>> : c \in stops}
            \cup {<<NameText(DatasetName(v, 0)), VolumeOf(v)>> : v \in vols}
    IN [k \in {e[1] : e \in entries} |->
           (CHOOSE e \in entries : e[1] = k)[2]]

\* a raw store with the groups of sensor 1 and sensor 4
RawStore(group1, group4) ==
    (<<"FT232H0", 1>> :> group1) @@ (<<"FT232H1", 4>> :> group4)

\* the raw stores given to filter_data: sensor 1 with any series and metadata,
\* sensor 4 with a full series or none and no metadata
InitAnalysis ==
    /\ InitSession
    /\ controllers = {}
    /\ \E n1 \in -1..MaxSamples, starts \in SUBSET AnalysisCycles,
          stops \in SUBSET AnalysisCycles,
          vols \in SUBSET {"start_vol", "stop_vol"}, varying \in BOOLEAN,
          n4 \in {-1, MaxSamples} :
            raw_h5f = RawStore(SensorGroup(n1, starts, stops, vols, varying),
                               SensorGroup(n4, {}, {}, {}, TRUE))
    /\ data_dict = NoData
    /\ filtered_h5f = NoData
    /\ analysis_pc = "idle"
    /\ NoDetection

NextAnalysis == FilterData

AnalysisSpec == InitAnalysis /\ [][NextAnalysis]_vars

\* ---------------------------------------------------- event detection
\* int(x * fs) for x = hundredths / 100 and a sampling rate of fs[1] samples
\* in fs[2] ticks, for rates whose product with x is not a whole number
samples_within(hundredths, fs) ==
    (hundredths * fs[1] * TicksPerSecond) \div (100 * fs[2])

\* min_dist = int(0.08 * fs)
min_dist(fs) == samples_within(8, fs)

\* max_dist = int(0.5 * fs)
max_dist(fs) == samples_within(50, fs)

RECURSIVE dedup_inclusive(_, _, _)
dedup_inclusive(candidates, spacing, lick_idxs) ==
    IF candidates = <<>> THEN lick_idxs
    ELSE dedup_inclusive(Tail(candidates), spacing,
             IF \/ lick_idxs = <<>>
                \/ Head(candidates) - lick_idxs[Len(lick_idxs)] >= spacing
             THEN Append(lick_idxs, Head(candidates))
             ELSE lick_idxs)

\* hilbert_algorithm, the loop over the candidates: a candidate is appended
\* when nothing was kept yet or it lies more than min_dist after the last kept
RECURSIVE dedup(_, _, _)
dedup(candidates, spacing, lick_idxs) ==
    IF candidates = <<>> THEN lick_idxs
    ELSE dedup(Tail(candidates), spacing,
             IF \/ lick_idxs = <<>>
                \/ Head(candidates) - lick_idxs[Len(lick_idxs)] > spacing
             THEN Append(lick_idxs, Head(candidates))
             ELSE lick_idxs)

retained_either(lick_idxs, i, dist) ==
    IF i = 0
    THEN /\ abs(lick_idxs[1] - lick_idxs[2]) < dist
         /\ abs(lick_idxs[1] - lick_idxs[3]) < 2 * dist
    ELSE IF i = Len(lick_idxs) - 1
    THEN /\ abs(lick_idxs[i + 1] - lick_idxs[i]) < dist
         /\ abs(lick_idxs[i + 1] - lick_idxs[i - 1]) < 2 * dist
    ELSE \/ abs(lick_idxs[i + 1] - lick_idxs[i]) < dist
         \/ abs(lick_idxs[i + 1] - lick_idxs[i + 2]) < dist

\* hilbert_algorithm, the body of the loop over enumerate(lick_idxs): whether
\* the candidate at position i (from 0) is appended to lick_idxs_
retained(lick_idxs, i, dist) ==
    IF i = 0
    THEN /\ abs(lick_idxs[1] - lick_idxs[2]) < dist
         /\ abs(lick_idxs[1] - lick_idxs[3]) < 2 * dist
    ELSE IF i = Len(lick_idxs) - 1
    THEN /\ abs(lick_idxs[i + 1] - lick_idxs[i]) < dist
         /\ abs(lick_idxs[i + 1] - lick_idxs[i - 1]) < 2 * dist
    ELSE IF /\ abs(lick_idxs[i + 1] - lick_idxs[i]) < dist
            /\ abs(lick_idxs[i + 1] - lick_idxs[i + 2]) < dist
    THEN TRUE
    ELSE IF abs(lick_idxs[i + 1] - lick_idxs[i]) < dist
    THEN /\ i # 1
         /\ abs(lick_idxs[i + 1] - lick_idxs[i - 1]) < 2 * dist
    ELSE IF abs(lick_idxs[i + 1] - lick_idxs[i + 2]) < dist
    THEN /\ ~(i >= Len(lick_idxs) - 2)
         /\ abs(lick_idxs[i + 1] - lick_idxs[i + 3]) < 2 * dist
    ELSE FALSE

\* lick_idxs_: the candidates the continuity loop appends, in order
continuity(lick_idxs, dist) ==
    LET kept == {i \in 0..(Len(lick_idxs) - 1) : retained(lick_idxs, i, dist)}
    IN [j \in 1..Cardinality(kept) |-> lick_idxs[sorted(kept)[j] + 1]]

no_licks_kept(lick_idxs) ==
    [fields |-> {"lick_indices", "lick_times"}, lick_idxs |-> lick_idxs,
     lick_indices |-> lick_idxs, lick_times |-> lick_idxs, num_licks |-> 0,
     saved |-> FALSE]

\* hilbert_algorithm with fewer than 3 deduplicated candidates: empty lick
\* lists are set on the data and the animal is not saved
no_licks(lick_idxs) ==
    [fields |-> {"lick_indices", "lick_times"}, lick_idxs |-> lick_idxs,
     lick_indices |-> <<>>, lick_times |-> <<>>, num_licks |-> 0,
     saved |-> FALSE]

\* hilbert_algorithm from the continuity filter on; lick_times = lick_idxs / fs
\* in seconds, as <<numerator, denominator>>
licks_kept(fs, lick_idxs, lick_idxs_) ==
    [fields |-> {"lick_times", "lick_indices", "num_licks"},
     lick_idxs |-> lick_idxs, lick_indices |-> lick_idxs_,
     lick_times |-> [j \in 1..Len(lick_idxs_) |->
                        <<lick_idxs_[j] * fs[2], fs[1] * TicksPerSecond>>],
     num_licks |-> Len(lick_idxs_), saved |-> TRUE]

\* hilbert_algorithm from the deduplicated candidates on
licks_after(data, lick_idxs) ==
    IF Len(lick_idxs) < 3 THEN no_licks(lick_idxs)
    ELSE licks_kept(data.fs, lick_idxs, continuity(lick_idxs, max_dist(data.fs)))

\* hilbert_algorithm, the body of the loop over the animals.  data.candidates
\* stands for the list the signal processing leaves (band-pass filter,
\* envelope mask and drops of the raw trace): np.where yields increasing
\* sample indices
hilbert_licks(data) ==
    licks_after(data, dedup(data.candidates, min_dist(data.fs), <<>>))

\* hilbert_algorithm: the groups written to the output store
hilbert_algorithm(by_animal) ==
    [animal \in {a \in DOMAIN by_animal : hilbert_licks(by_animal[a]).saved} |->
        save_filtered_data(by_animal[animal], hilbert_licks(by_animal[animal]))]

AlgorithmUnchanged ==
    UNCHANGED <<controllers, call, raw_h5f, data_dict, algorithm, subjects,
                layout_rows, comments, sensor_states, recording_all, session,
                has_recorder, recording, loop_counter, BufferState, FileState,
                pc, cancel_pending, JoinState, flushed>>

\* basic_algorithm(data_by_animal, filtered_h5f, logfile)
BasicAlgorithm ==
    /\ analysis_pc = "idle"
    /\ algorithm = "basic_threshold"
    /\ detected' = [animal \in DOMAIN subjects |-> basic_licks(subjects[animal])]
    /\ filtered_h5f' = basic_algorithm(subjects)
    /\ analysis_pc' = "done"
    /\ AlgorithmUnchanged

\* hilbert_algorithm(data_by_animal, filtered_h5f, logfile)
HilbertAlgorithm ==
    /\ analysis_pc = "idle"
    /\ algorithm = "hilbert"
    /\ detected' = [animal \in DOMAIN subjects |-> hilbert_licks(subjects[animal])]
    /\ filtered_h5f' = hilbert_algorithm(subjects)
    /\ analysis_pc' = "done"
    /\ AlgorithmUnchanged

\* the capacitance values of the traces analysed
CapValues == 0..4

\* the sampling rates of the traces given to hilbert_algorithm, as samples
\* per ticks: about 4, 13 and 27 samples per second
FsValues == {<<1, 6>>, <<13, 24>>, <<9, 8>>}

\* the ticks between two samples of a trace
Spacings == {1, 2}

\* a truncated trace as filter_data hands it on, with re-zeroed time stamps
Subject(cap_data, time_data, fs, candidates) ==
    [time_data |-> time_data, cap_data |-> cap_data,
     fs |-> fs, candidates |-> candidates, used_start_idx |-> 0,
     used_stop_idx |-> Len(cap_data), consumed_vol |-> <<>>]

\* the data handed to the detection algorithms: one animal with any trace of
\* MaxTrace evenly spaced samples for the threshold scan, or with any increasing list of
\* candidate indices up to MaxIndex for the envelope algorithm
InitDetect ==
    /\ InitSession
    /\ controllers = {}
    /\ raw_h5f = NoData
    /\ data_dict = NoData
    /\ filtered_h5f = NoData
    /\ analysis_pc = "idle"
    /\ detected = NoData
    /\ \/ /\ algorithm = "basic_threshold"
          /\ \E cap_data \in [1..MaxTrace -> CapValues], spacing \in Spacings :
                subjects =
                    ("A" :> Subject(cap_data,
                                    [i \in 1..MaxTrace |-> (i - 1) * spacing],
                                    <<MaxTrace, (MaxTrace - 1) * spacing>>, <<>>))
       \/ /\ algorithm = "hilbert"
          /\ \E picked \in SUBSET (0..MaxIndex), fs \in FsValues :
                subjects = ("A" :> Subject(<<>>, <<>>, fs, sorted(picked)))

NextDetect ==
    \/ BasicAlgorithm
    \/ HilbertAlgorithm

DetectSpec == InitDetect /\ [][NextDetect]_vars

\* ------------------------------------------------------------- properties
TypeOK ==
    /\ controllers \subseteq Boards
    /\ pc \in {"none", "created", "sleep", "join", "append", "flush", "incr",
               "unwind", "done", "failed", "cancelled"}
    /\ loop_counter \in 0..(MaxLoops + 1)
    /\ flushed \in {"none", "initial", "append"}

Range(q) == {q[i] : i \in 1..Len(q)}

\* the sensors of the connected boards
Connected == Range(SensorPaths)

\* a sensor's on-disk array, empty while the dataset does not exist
Disk(p, name) ==
    IF <<p[1], p[2], name>> \in DOMAIN h5_data
    THEN h5_data[<<p[1], p[2], name>>] ELSE <<>>

HasDatasets(p) ==
    /\ <<p[1], p[2], "time_data">> \in DOMAIN h5_data
    /\ <<p[1], p[2], "cap_data">> \in DOMAIN h5_data

Last(q) == IF q = <<>> THEN 0 ELSE q[Len(q)]

AnyRunning == \E sn \in controllers : fut[sn].status = "running"

ReadFailed == \E sn \in controllers : fut[sn].status = "err"

\* C1: once the acquisition loop has terminated, every connected sensor's
\* on-disk time_data and cap_data hold as many samples as iterations were
\* completed.
C1_DiskCountEqualsIterations ==
    (has_recorder /\ pc \in Terminal) =>
        \A p \in Connected :
            /\ Len(Disk(p, "time_data")) = loop_counter
            /\ Len(Disk(p, "cap_data")) = loop_counter

\* C2: immediately after a flush, every connected sensor's time_data and
\* cap_data exist and their length equals loop_counter.
C2_FlushLength ==
    (pc = "incr" /\ flushed # "none") =>
        \A p \in Connected :
            /\ HasDatasets(p)
            /\ Len(Disk(p, "time_data")) = loop_counter
            /\ Len(Disk(p, "cap_data")) = loop_counter

C2_Witness ==
    /\ pc = "incr"
    /\ flushed = "append"
    /\ Cardinality(controllers) = 2
    /\ \A p \in Connected : Len(Disk(p, "cap_data")) = 2 * HISTORY_SIZE

\* C3: no sample is evicted from a ring buffer before it has been written
\* to the store: whenever an append to a full buffer drops the buffer's
\* oldest sample, that sample is in the sensor's on-disk array.
C3_NoEvictionBeforeWrite ==
    [][pc = "append" =>
          \A p \in Connected :
              /\ Len(board_time_data[p[1]][p[2]]) >= HISTORY_SIZE =>
                     Head(board_time_data[p[1]][p[2]]) \in Range(Disk(p, "time_data"))
              /\ Len(board_cap_data[p[1]][p[2]]) >= HISTORY_SIZE =>
                     Head(board_cap_data[p[1]][p[2]]) \in Range(Disk(p, "cap_data"))]_vars

\* one array of one sensor across an append flush
AppendedExactly(old, new, buf) ==
    /\ Len(new) = Len(old) + HISTORY_SIZE
    /\ tmp_ctr = Len(old)
    /\ SubSeq(new, 1, Len(old)) = old
    /\ SubSeq(new, Len(old) + 1, Len(new)) = buf

\* C4: an append flush grows each connected sensor's arrays by exactly
\* HISTORY_SIZE, at offset loop_counter - HISTORY_SIZE, which is the length
\* before the append; what was on disk stays and the batch is the new tail.
C4_AppendOffset ==
    [][(pc = "flush" /\ FlushKind = "append") =>
          \A p \in Connected :
              /\ HasDatasets(p)
              /\ AppendedExactly(Disk(p, "time_data"),
                                 h5_data'[<<p[1], p[2], "time_data">>],
                                 board_time_data[p[1]][p[2]])
              /\ AppendedExactly(Disk(p, "cap_data"),
                                 h5_data'[<<p[1], p[2], "cap_data">>],
                                 board_cap_data[p[1]][p[2]])]_vars

C4_Witness ==
    /\ pc = "incr"
    /\ flushed = "append"
    /\ \A p \in Connected :
           Disk(p, "time_data") = [i \in 1..(2 * HISTORY_SIZE) |-> i + 1]

\* no sample of the iteration in progress is in a buffer or in the store
NoSampleOfIteration ==
    \A p \in Connected :
        /\ ReadTag \notin Range(board_time_data[p[1]][p[2]])
        /\ ReadTag \notin Range(board_cap_data[p[1]][p[2]])
        /\ ReadTag \notin Range(Disk(p, "time_data"))
        /\ ReadTag \notin Range(Disk(p, "cap_data"))

\* C5: when a board's read raises, no sample of that iteration reaches a
\* buffer or the store, the exception leaves record_sensors, and the loop
\* executes nothing further.
C5_ReadFailureIsFatal ==
    /\ [](ReadFailed => (pc \in {"join", "unwind", "failed"} /\ NoSampleOfIteration))
    /\ [][pc = "unwind" => pc' \in {"unwind", "failed"}]_vars
    /\ [][(pc = "failed" /\ pc' = "failed") =>
             UNCHANGED <<loop_counter, BufferState, h5_data, JoinState>>]_vars

C5_Witness ==
    /\ pc = "failed"
    /\ loop_counter > 0
    /\ \E sn \in controllers : fut[sn].status = "ok"
    /\ \E sn \in controllers : fut[sn].status = "err"

\* the sample of every read that completed is in each buffer of its board
CompletedReadsAppended ==
    \A sn \in controllers :
        fut[sn].status = "ok" =>
            \A s \in SensorSet(sn) :
                /\ fut[sn].time[IndexOf(Sensors(sn), s)] \in Range(board_time_data[sn][s])
                /\ fut[sn].cap[IndexOf(Sensors(sn), s)] \in Range(board_cap_data[sn][s])

\* every connected sensor has received one sample per completed iteration
SameSampleCount ==
    \A p \in Connected :
        /\ Len(board_time_data[p[1]][p[2]]) = Min(loop_counter, HISTORY_SIZE)
        /\ Len(board_cap_data[p[1]][p[2]]) = Min(loop_counter, HISTORY_SIZE)
        /\ Last(board_time_data[p[1]][p[2]]) = loop_counter
        /\ Last(board_cap_data[p[1]][p[2]]) = loop_counter

\* the last completed iteration was one whose flush was due
LastFlushDue ==
    /\ loop_counter - 1 > 0
    /\ (loop_counter - 1) % HISTORY_SIZE = 0

\* C6: a stop request is made, and a cancellation delivered, only while the
\* loop is at its await; when the loop has exited on a stop, no read is in
\* flight, the samples of every completed read are in the buffers, every
\* connected sensor has the same number of samples, and a flush that was due
\* in the last iteration has been done.
C6_StopAtIterationBoundary ==
    /\ (cancel_pending => pc \in {"created", "sleep"})
    /\ (has_recorder /\ pc \in {"done", "cancelled"}) =>
          /\ ~AnyRunning
          /\ CompletedReadsAppended
          /\ SameSampleCount
          /\ LastFlushDue =>
                \A p \in Connected : Len(Disk(p, "time_data")) = loop_counter - 1

C6_Witness ==
    /\ pc = "done"
    /\ ~recording
    /\ loop_counter = HISTORY_SIZE + 1
    /\ Cardinality(controllers) = 2
    /\ \A p \in Connected : Len(Disk(p, "time_data")) = HISTORY_SIZE

\* stop() or cancel() has been called on the running recorder
StopRequested ==
    \/ cancel_pending
    \/ ~recording /\ pc \in {"sleep", "join", "append", "flush", "incr"}

\* C7: once a stop has been requested, the loop never returns to its head
\* for another iteration, completes at most one further iteration, and,
\* every submitted read returning, terminates.
C7_StopTerminates ==
    /\ [][StopRequested => ~(pc # "sleep" /\ pc' = "sleep")]_vars
    /\ [][(StopRequested /\ loop_counter' = loop_counter + 1) => pc' = "done"]_vars
    /\ (StopRequested ~> (pc \in Terminal \/ (pc = "created" /\ ~cancel_pending)))

C7_Witness ==
    /\ pc = "done"
    /\ ~recording
    /\ recording_all
    /\ loop_counter = 2

\* a step of a handler: a change that only code outside the task makes
HandlerEffect ==
    \/ comments' # comments
    \/ layout_rows' # layout_rows
    \/ sensor_states' # sensor_states
    \/ session' # session
    \/ h5_comments' # h5_comments
    \/ h5_meta' # h5_meta
    \/ ~cancel_pending /\ cancel_pending'
    \/ recording /\ ~recording'
    \/ ~recording_all /\ recording_all'

C9_JoinBarrier ==
    /\ (pc \in {"join", "append", "flush", "incr"}) =>
          /\ Len(futures) = Cardinality(controllers)
          /\ Range(futures) = controllers
    /\ AnyRunning => pc \in {"join", "unwind"}
    /\ (pc \in {"append", "flush", "incr"}) =>
          \A sn \in controllers : fut[sn].status = "ok" /\ fut[sn].time[1] = ReadTag

C9_Witness ==
    /\ pc = "append"
    /\ Cardinality(controllers) = 2
    /\ loop_counter = 1

\* C10: after a read failure has ended the loop, recording_all is false and
\* no read is in flight or issued; recording_all becomes true again only by
\* a start_recording that creates a new recorder and task.
C10_FailureAbortsSession ==
    /\ [](pc = "failed" => (~recording_all /\ ~AnyRunning))
    /\ [][pc = "failed" =>
             /\ \A sn \in controllers : fut'[sn].status # "running"
             /\ pc' = "failed" \/ (pc' = "created" /\ session' = session + 1)]_vars
    /\ [][(~recording_all /\ recording_all') =>
             (pc' = "created" /\ session' = session + 1)]_vars

C10_Witness ==
    /\ pc = "failed"
    /\ ~recording_all
    /\ ~AnyRunning
    /\ loop_counter = HISTORY_SIZE

\* a field of a cycle holds in the next state what it holds now
SameField(k) == Stored(h5_meta', k) = Stored(h5_meta, k)

\* C11: once a start_time or stop_time dataset exists for a sensor and cycle,
\* no later step in the same store changes or removes it, whatever time stamp
\* a later write_sensor_metadata call for that sensor and cycle provides
C11_TimesWrittenOnce ==
    [][\A k \in DOMAIN h5_meta :
          (k[3][1] \in TimeFields /\ session' = session /\ h5_exists')
              => SameField(k)]_vars

\* a call gave a different time stamp for a field already stored and returned
C11_Witness ==
    /\ call.field \in TimeFields
    /\ ~call.raised
    /\ call.before # <<>>
    /\ call.before # <<call.value>>
    /\ Stored(h5_meta, MetaKey(call.sensor_id, call.field, call.cycle)) = call.before

\* a step that is a call of write_sensor_metadata, as recorded in call
DirectCall(P(_, _, _, _)) ==
    call' # call => P(call'.sensor_id, call'.field, call'.value, call'.cycle)

\* what a returning call does to the volume and weight fields of its cycle
VolumeEffect(sensor_id, field, value, cycle) ==
    ~call'.raised =>
        \A vf \in VolumeFields :
            LET k == MetaKey(sensor_id, vf, cycle)
            IN IF vf = field /\ value > 0
               THEN Stored(h5_meta', k) = <<value>>
               ELSE SameField(k)

\* C12: a returning write_sensor_metadata call given start_vol, stop_vol or
\* weight v > 0 leaves that field equal to v whatever it held; given a value
\* that is not > 0, or no value for the field, it leaves the field as it was
C12_VolumesOverwritten == [][DirectCall(VolumeEffect)]_vars

\* a call gave a new positive value for a volume or weight already stored
C12_Witness ==
    /\ call.field \in VolumeFields
    /\ ~call.raised
    /\ call.value > 0
    /\ call.before # <<>>
    /\ call.before # <<call.value>>
    /\ Stored(h5_meta, MetaKey(call.sensor_id, call.field, call.cycle))
           = <<call.value>>

\* a call on an open store returns, and the sensor's group and the given
\* field exist afterwards
CreatesNamespace(sensor_id, field, value, cycle) ==
    h5_exists =>
        /\ ~call'.raised
        /\ <<BoardOf(sensor_id), sensor_id>> \in h5_groups'
        /\ (field \in TimeFields \/ value > 0)
               => MetaKey(sensor_id, field, cycle) \in DOMAIN h5_meta'

\* C14: write_sensor_metadata for any sensor whose group is absent from the
\* open store creates the group and writes the given field, without failing
C14_NamespaceCreatedLazily == [][DirectCall(CreatesNamespace)]_vars

\* a start or stop time of the sensor's cycle is in the store
HasBracket(sensor_id, cycle) ==
    \E field \in TimeFields : MetaKey(sensor_id, field, cycle) \in DOMAIN h5_meta

\* C13: in the store of every session the brackets of a sensor are numbered
\* from 0 upwards: a bracket under index c > 0 comes with one under c - 1
C13_CyclesCountFromZero ==
    \A sensor_id \in CardSensors, cycle \in 1..MaxCycles :
        HasBracket(sensor_id, cycle) => HasBracket(sensor_id, cycle - 1)

\* C15: within a session the comments dataset is written at most once, by
\* the step of stop_recording that ends the session, while the recording
\* task is suspended or finished, and no iteration is started afterwards
C15_CommentsWrittenOnceAtEnd ==
    [][/\ (h5_comments' # h5_comments /\ session' = session) =>
              /\ h5_comments = <<>>
              /\ recording_all /\ ~recording_all'
              /\ pc \in AwaitPoints \cup Terminal
       /\ (h5_comments # <<>> /\ session' = session) =>
              /\ h5_comments' = h5_comments
              /\ ~(pc = "sleep" /\ pc' = "join")]_vars

\* the comments were written by a stop_recording that cancelled a running loop
C15_Witness ==
    /\ h5_comments = <<"note">>
    /\ pc = "cancelled"
    /\ loop_counter >= 1
    /\ ~recording_all

\* C16: while the layout is empty no step creates a recorder, a store file or
\* a task, and recording_all stays false; a loaded layout is never replaced
\* by an empty one
C16_EmptyLayoutRejected ==
    [][/\ layout_rows = 0 =>
              /\ ~recording_all'
              /\ ~has_recorder'
              /\ ~h5_exists'
              /\ pc' = "none"
              /\ session' = 0
       /\ layout_rows # 0 => layout_rows' # 0]_vars

\* boards are connected and nothing records: start_recording is refused for
\* the empty layout alone
C16_Witness ==
    /\ controllers # {}
    /\ layout_rows = 0
    /\ ~recording_all
    /\ ~has_recorder
    /\ pc = "none"
    /\ comments = "note"

\* the cycles for which the raw sensor group holds the given field
CyclesWith(group, field) ==
    {c \in AnalysisCycles : NameText(DatasetName(field, c)) \in DOMAIN group}

\* the highest cycle of a non-empty set of cycles
Highest(cycles) == CHOOSE c \in cycles : \A d \in cycles : d <= c

\* the recorded series of a raw sensor group, empty when it has none
Series(group, name) ==
    IF NameOf(name) \in DOMAIN group THEN group[NameOf(name)] ELSE <<>>

\* the sensor's own data can be truncated and analysed
Sound(group) == ~truncate(group).raised /\ Analysed(truncate(group))

\* C17: when filter_data has ended, every assigned animal whose own sensor
\* data can be truncated and analysed has its results in the output store,
\* whatever happened to the other sensors
C17_FailureConfined ==
    analysis_pc # "idle" =>
        \A i \in 1..Len(sensor_animal_map) :
            LET sensor == sensor_animal_map[i][1]
                path == <<BoardOf(sensor), sensor>>
            IN (path \in DOMAIN raw_h5f /\ Sound(raw_h5f[path]))
                   => sensor_animal_map[i][2] \in DOMAIN filtered_h5f

\* C18: a processed sensor without any start_time field keeps its whole
\* recorded trace, from the first to the last sample
C18_WholeTraceWithoutStart ==
    \A path \in DOMAIN data_dict :
        (/\ CyclesWith(raw_h5f[path], "start_time") = {}
         /\ ~data_dict[path].raised)
            => /\ Len(data_dict[path].time_data)
                      = Len(Series(raw_h5f[path], "time_data"))
               /\ data_dict[path].cap_data = Series(raw_h5f[path], "cap_data")

\* the highest cycle of the group has a start time and no stop time
Unterminated(group) ==
    /\ CyclesWith(group, "start_time") # {}
    /\ Highest(CyclesWith(group, "start_time"))
           \notin CyclesWith(group, "stop_time")

\* C19: a processed sensor whose highest cycle has a start time and no stop
\* time is truncated, without failing, at the final time stamp of its series
C19_UnterminatedCycleRunsToEnd ==
    \A path \in DOMAIN data_dict :
        LET group == raw_h5f[path]
            times == Series(group, "time_data")
        IN (/\ Unterminated(group)
            /\ (NameOf("stop_vol") \in DOMAIN group
                   => NameOf("start_vol") \in DOMAIN group))
               => /\ ~data_dict[path].raised
                  /\ data_dict[path].stop_time = times[Len(times)]

\* C20: a truncated sensor holding start times of several cycles was
\* truncated with the start time of its highest cycle and, when that cycle
\* has a stop time, with the stop time of that cycle
C20_HighestCycleBracket ==
    \A path \in DOMAIN data_dict :
        LET group == raw_h5f[path]
            top == Highest(CyclesWith(group, "start_time"))
        IN (CyclesWith(group, "start_time") # {} /\ ~data_dict[path].raised)
               => /\ data_dict[path].start_time = BracketTime("start_time", top)
                  /\ top \in CyclesWith(group, "stop_time")
                         => data_dict[path].stop_time
                                = BracketTime("stop_time", top)

\* a sensor with the brackets of three cycles, all stopped, was truncated
C20_Witness ==
    /\ analysis_pc = "done"
    /\ \E path \in DOMAIN data_dict :
        /\ CyclesWith(raw_h5f[path], "start_time") = AnalysisCycles
        /\ CyclesWith(raw_h5f[path], "stop_time") = AnalysisCycles
        /\ ~data_dict[path].raised
        /\ data_dict[path].start_time = 3
        /\ data_dict[path].stop_time = 5

\* both series of the raw sensor group were flushed at least once
Recorded(group) ==
    /\ Series(group, "time_data") # <<>>
    /\ Len(Series(group, "cap_data")) = Len(Series(group, "time_data"))

\* the volume fields the group holds let the consumed volume be computed
VolumesUsable(group) ==
    NameOf("stop_vol") \in DOMAIN group => NameOf("start_vol") \in DOMAIN group

\* C21: every processed sensor whose series were flushed, whatever start and
\* stop times it holds, is truncated without failing, and its truncated time
\* and capacitance arrays both have length used_stop_idx - used_start_idx
C21_TruncatedLengthsMatchIndices ==
    \A path \in DOMAIN data_dict :
        (Recorded(raw_h5f[path]) /\ VolumesUsable(raw_h5f[path]))
            => /\ ~data_dict[path].raised
               /\ Len(data_dict[path].time_data)
                      = data_dict[path].used_stop_idx
                            - data_dict[path].used_start_idx
               /\ Len(data_dict[path].cap_data)
                      = data_dict[path].used_stop_idx
                            - data_dict[path].used_start_idx

\* the raw sensor group without its volume fields
WithoutVolumes(group) ==
    [k \in DOMAIN group \ {NameOf("start_vol"), NameOf("stop_vol")} |-> group[k]]

\* C22: a processed sensor that can be truncated when its volume fields are
\* left aside is truncated with them as well; its consumed volume is
\* start_vol - stop_vol when both are held and is omitted otherwise
C22_MissingVolumesTolerated ==
    \A path \in DOMAIN data_dict :
        LET group == raw_h5f[path]
        IN ~truncate(WithoutVolumes(group)).raised
               => /\ ~data_dict[path].raised
                  /\ data_dict[path].consumed_vol
                         = IF {NameOf("start_vol"), NameOf("stop_vol")}
                                  \subseteq DOMAIN group
                           THEN <<group[NameOf("start_vol")]
                                  - group[NameOf("stop_vol")]>>
                           ELSE <<>>

\* the different capacitance values of a trace
ValuesIn(trace) == {trace[i] : i \in 1..Len(trace)}

\* the maximal runs of samples below a doubled threshold, as <<first, last>>
Runs(trace, thr) ==
    {r \in (0..(Len(trace) - 1)) \X (0..(Len(trace) - 1)) :
        /\ r[1] <= r[2]
        /\ \A i \in r[1]..r[2] : 2 * trace[i + 1] < thr
        /\ r[1] = 0 \/ 2 * trace[r[1]] >= thr
        /\ r[2] = Len(trace) - 1 \/ 2 * trace[r[2] + 2] >= thr}

\* the threshold indices with a threshold two steps lower
ScannedIndices(trace) == 2..(Cardinality(ValuesIn(trace)) - 2)

\* the doubled midpoint between the k-th and the next different value, from 0
Midpoint(trace, k) == thresholds(unique(trace))[k + 1]

\* the runs below threshold k that last less than 1/6 s and hold a sample
\* below the threshold two steps lower
Surviving(data, k) ==
    {r \in Runs(data.cap_data, Midpoint(data.cap_data, k)) :
        /\ 6 * (data.time_data[r[2] + 1] - data.time_data[r[1] + 1])
               < TicksPerSecond
        /\ \E i \in r[1]..r[2] :
               2 * data.cap_data[i + 1] < Midpoint(data.cap_data, k - 2)}

\* the first sample of minimum capacitance within a run
Instant(trace, r) ==
    CHOOSE i \in r[1]..r[2] :
        /\ \A k \in r[1]..r[2] : trace[i + 1] <= trace[k + 1]
        /\ \A k \in r[1]..(i - 1) : trace[k + 1] > trace[i + 1]

\* the instants of the surviving runs of threshold k, in order
Instants(data, k) ==
    sorted({Instant(data.cap_data, r) : r \in Surviving(data, k)})

\* the animals handed to the threshold scan, once it has run
Scanned ==
    IF analysis_pc = "done" /\ algorithm = "basic_threshold"
    THEN DOMAIN detected ELSE {}

\* C23: the threshold scan reports no event for a trace with three or fewer
\* different capacitance values
C23_FewValuesNoEvents ==
    \A animal \in Scanned :
        Cardinality(ValuesIn(subjects[animal].cap_data)) <= 3
            => /\ detected[animal].lick_indices = <<>>
               /\ detected[animal].num_licks = 0
               /\ animal \in DOMAIN filtered_h5f
                      => filtered_h5f[animal].lick_indices = <<>>

\* a trace of three different values with two short dips was scanned
C23_Witness ==
    /\ "A" \in Scanned
    /\ subjects["A"].cap_data = <<4, 0, 4, 2, 0, 4>>
    /\ subjects["A"].time_data[2] = 1
    /\ detected["A"].lick_indices = <<>>

\* C24: for a trace with exactly one run below every scanned threshold, that
\* run lasting less than 1/6 s and dipping below the threshold two steps
\* lower, the threshold scan reports exactly one event, at the first sample
\* of minimum capacitance of the run
C24_SingleRunSingleEvent ==
    \A animal \in Scanned :
        LET data == subjects[animal]
        IN (/\ ScannedIndices(data.cap_data) # {}
            /\ \A k \in ScannedIndices(data.cap_data) :
                  /\ Cardinality(Runs(data.cap_data, Midpoint(data.cap_data, k))) = 1
                  /\ Surviving(data, k) = Runs(data.cap_data, Midpoint(data.cap_data, k)))
               => /\ detected[animal].num_licks = 1
                  /\ \A k \in ScannedIndices(data.cap_data) :
                        \A r \in Runs(data.cap_data, Midpoint(data.cap_data, k)) :
                            detected[animal].lick_indices
                                = <<Instant(data.cap_data, r)>>

\* a single run whose minimum occurs twice, away from its first sample
C24_Witness ==
    /\ "A" \in Scanned
    /\ subjects["A"].cap_data = <<4, 2, 0, 0, 1, 4>>
    /\ subjects["A"].time_data[2] = 1
    /\ detected["A"].lick_indices = <<2>>

\* the lowest scanned threshold index with the largest number of surviving runs
Selected(data) ==
    CHOOSE k \in ScannedIndices(data.cap_data) :
        /\ \A j \in ScannedIndices(data.cap_data) :
               Cardinality(Surviving(data, j)) <= Cardinality(Surviving(data, k))
        /\ \A j \in ScannedIndices(data.cap_data) :
               j < k => Cardinality(Surviving(data, j)) < Cardinality(Surviving(data, k))

\* C25: the threshold scan reports the instants of the surviving runs of the
\* scanned threshold with the most surviving runs, the lowest such threshold
\* when several have the most
C25_BestThresholdSelected ==
    \A animal \in Scanned :
        ScannedIndices(subjects[animal].cap_data) # {}
            => detected[animal].lick_indices
                   = Instants(subjects[animal], Selected(subjects[animal]))

\* two thresholds with one surviving run each, at different instants
C25_Witness ==
    /\ "A" \in Scanned
    /\ LET data == subjects["A"]
       IN /\ ScannedIndices(data.cap_data) = {2, 3}
          /\ Cardinality(Surviving(data, 2)) = 1
          /\ Cardinality(Surviving(data, 3)) = 1
          /\ Instants(data, 2) # Instants(data, 3)
          /\ detected["A"].lick_indices = Instants(data, 2)

\* C26: for a trace with at least 4 different values of which no scanned
\* threshold has a surviving run, the threshold scan completes and reports an
\* empty event list and the count 0
C26_NoSurvivingRunsNoEvents ==
    \A animal \in Scanned :
        LET data == subjects[animal]
        IN (/\ Cardinality(ValuesIn(data.cap_data)) >= 4
            /\ \A k \in ScannedIndices(data.cap_data) : Surviving(data, k) = {})
               => /\ "num_licks" \in detected[animal].fields
                  /\ detected[animal].num_licks = 0
                  /\ detected[animal].lick_indices = <<>>
                  /\ animal \in DOMAIN filtered_h5f
                  /\ filtered_h5f[animal].lick_indices = <<>>

\* a trace of 4 different values with a shallow run and a run that lasts
\* too long was scanned
C26_Witness ==
    /\ "A" \in Scanned
    /\ subjects["A"].cap_data = <<4, 3, 4, 0, 2, 3>>
    /\ subjects["A"].time_data[2] = 2
    /\ "A" \in DOMAIN filtered_h5f
    /\ detected["A"].num_licks = 0

\* the elements of a list
Elements(q) == {q[i] : i \in 1..Len(q)}

\* the entries of a list of indices increase strictly
Increasing(q) == \A i \in 1..(Len(q) - 1) : q[i] < q[i + 1]

\* C27: the events either algorithm reports for a trace increase strictly in
\* sample index, and two events of the threshold scan never lie in the same
\* run of one of the scanned thresholds
C27_EventsStrictlyIncreasing ==
    \A animal \in DOMAIN detected :
        /\ Increasing(detected[animal].lick_indices)
        /\ animal \in DOMAIN filtered_h5f
               => filtered_h5f[animal].lick_indices = detected[animal].lick_indices
        /\ (algorithm = "basic_threshold" /\ detected[animal].num_licks > 1)
               => \E k \in ScannedIndices(subjects[animal].cap_data) :
                      \A r \in Runs(subjects[animal].cap_data,
                                    Midpoint(subjects[animal].cap_data, k)) :
                          Cardinality({e \in Elements(detected[animal].lick_indices) :
                                          r[1] <= e /\ e <= r[2]}) <= 1

\* the threshold scan reported two events, the second run reaching its
\* minimum at the same offset as the first
C27_Witness ==
    /\ "A" \in Scanned
    /\ subjects["A"].cap_data = <<1, 0, 4, 2, 0, 3>>
    /\ detected["A"].lick_indices = <<1, 4>>

\* the animals handed to the envelope algorithm, once it has run
Enveloped ==
    IF analysis_pc = "done" /\ algorithm = "hilbert"
    THEN DOMAIN detected ELSE {}

\* C28: the envelope algorithm reports no event when fewer than 3 raw
\* candidates exist
C28_FewCandidatesNoEvents ==
    \A animal \in Enveloped :
        Len(subjects[animal].candidates) < 3
            => /\ detected[animal].lick_indices = <<>>
               /\ detected[animal].lick_times = <<>>
               /\ animal \in DOMAIN filtered_h5f
                      => filtered_h5f[animal].lick_indices = <<>>

\* two candidates that lie close together and far enough apart to be both
\* kept by the deduplication were handed over
C28_Witness ==
    /\ "A" \in Enveloped
    /\ subjects["A"].candidates = <<3, 4>>
    /\ detected["A"].lick_idxs = <<3, 4>>
    /\ detected["A"].lick_indices = <<>>

\* the time between two sample indices is less than 0.08 s at the rate fs
CloserThanMinimum(fs, a, b) ==
    100 * abs(b - a) * fs[2] < 8 * fs[1] * TicksPerSecond

\* the deduplication rule: the first candidate is kept, and a later candidate
\* is kept exactly if it lies more than int(0.08 fs) samples after the last
\* candidate kept before it
DedupRule(data, kept) ==
    /\ Increasing(kept)
    /\ Elements(kept) \subseteq Elements(data.candidates)
    /\ data.candidates # <<>> => (kept # <<>> /\ kept[1] = data.candidates[1])
    /\ \A i \in 2..Len(data.candidates) :
           data.candidates[i] \in Elements(kept)
               <=> \A k \in Elements(kept) :
                       (/\ k < data.candidates[i]
                        /\ \A j \in Elements(kept) :
                               j < data.candidates[i] => j <= k)
                           => data.candidates[i] - k > min_dist(data.fs)

\* C29 as stated: the deduplication rule holds, and of any two candidates
\* closer than 0.08 s only the earlier one can be kept: the later one is not
C29_EarlierOfClosePairKept ==
    \A animal \in Enveloped :
        LET data == subjects[animal]
            kept == detected[animal].lick_idxs
        IN /\ DedupRule(data, kept)
           /\ \A a, b \in Elements(data.candidates) :
                  (a < b /\ CloserThanMinimum(data.fs, a, b))
                      => b \notin Elements(kept)

\* C29 as amended: the deduplication rule holds, so no two kept candidates
\* are closer than 0.08 s, and of two candidates closer than 0.08 s the later
\* one is never kept when the earlier one is
C29_KeptCandidatesSpaced ==
    \A animal \in Enveloped :
        LET data == subjects[animal]
            kept == detected[animal].lick_idxs
        IN /\ DedupRule(data, kept)
           /\ \A a, b \in Elements(data.candidates) :
                  (a < b /\ CloserThanMinimum(data.fs, a, b))
                      => ~(a \in Elements(kept) /\ b \in Elements(kept))

\* of three adjacent candidates at 13 samples per second the middle one was
\* dropped and the last one kept
C29_Witness ==
    /\ "A" \in Enveloped
    /\ subjects["A"].fs = <<13, 24>>
    /\ subjects["A"].candidates = <<0, 1, 2>>
    /\ detected["A"].lick_idxs = <<0, 2>>

\* the candidate at position j of the list exists and lies closer than limit
\* to the candidate at position i
Near(q, i, j, limit) ==
    /\ j \in 1..Len(q)
    /\ abs(q[i] - q[j]) < limit

\* the continuity rule for the candidate at position i of the deduplicated list
Continuous(q, i, D) ==
    IF i = 1 THEN Near(q, 1, 2, D) /\ Near(q, 1, 3, 2 * D)
    ELSE IF i = Len(q)
    THEN Near(q, i, i - 1, D) /\ Near(q, i, i - 2, 2 * D)
    ELSE \/ Near(q, i, i - 1, D) /\ Near(q, i, i + 1, D)
         \/ /\ Near(q, i, i - 1, D)
            /\ ~Near(q, i, i + 1, D)
            /\ Near(q, i, i - 2, 2 * D)
         \/ /\ ~Near(q, i, i - 1, D)
            /\ Near(q, i, i + 1, D)
            /\ Near(q, i, i + 2, 2 * D)

\* C30: of at least 3 deduplicated candidates the envelope algorithm reports,
\* in order, exactly those that satisfy the continuity rule with
\* D = int(0.5 fs) among their neighbours in the deduplicated list
C30_ContinuityFilter ==
    \A animal \in Enveloped :
        LET q == detected[animal].lick_idxs
            D == max_dist(subjects[animal].fs)
        IN Len(q) >= 3
               => /\ Increasing(detected[animal].lick_indices)
                  /\ Elements(detected[animal].lick_indices)
                         = {q[i] : i \in {j \in 1..Len(q) : Continuous(q, j, D)}}

\* at 4 samples per second (D = 2): the third candidate has only its left
\* neighbour close and a second left neighbour within 2D, the second has
\* both neighbours close, the last is too far from the others
C30_Witness ==
    /\ "A" \in Enveloped
    /\ subjects["A"].fs = <<1, 6>>
    /\ detected["A"].lick_idxs = <<0, 1, 2, 5, 9>>
    /\ detected["A"].lick_indices = <<0, 1, 2>>

\* the acquisition loop stands between two iterations, or has ended
BetweenIterations == has_recorder /\ pc \in AwaitPoints \cup Terminal

\* the samples on disk after I completed iterations, in whole batches
WholeBatches(I) == HISTORY_SIZE * ((I - 1) \div HISTORY_SIZE)

\* C31: after I >= 1 completed iterations every connected sensor's on-disk
\* arrays have length N * floor((I - 1) / N): no arrays exist before N + 1
\* iterations have completed, and the samples acquired after the last flush
\* are not on disk when the loop has stopped.
C31_DiskLengthWholeBatches ==
    (BetweenIterations /\ loop_counter >= 1) =>
        \A p \in Connected :
            /\ Len(Disk(p, "time_data")) = WholeBatches(loop_counter)
            /\ Len(Disk(p, "cap_data")) = WholeBatches(loop_counter)
            /\ HasDatasets(p) <=> loop_counter >= HISTORY_SIZE + 1

\* a loop stopped after 150 iterations: 100 samples on disk, 49 acquired
\* after the flush are not
C31_Witness ==
    /\ has_recorder /\ pc = "done" /\ controllers # {}
    /\ loop_counter = HISTORY_SIZE + 50
    /\ \A p \in Connected : Len(Disk(p, "time_data")) = HISTORY_SIZE

\* consecutive reads of one sensor, in acquisition order
Contiguous(q) == \A j \in 1..(Len(q) - 1) : q[j + 1] = q[j] + 1

\* C32: each connected sensor's on-disk arrays hold a contiguous run of the
\* sensor's acquired samples in acquisition order, none repeated, and
\* time_data[j] and cap_data[j] come from the same read.
C32_DiskContiguousAndPaired ==
    \A p \in Connected :
        LET time_data == Disk(p, "time_data")
            cap_data == Disk(p, "cap_data")
        IN /\ Contiguous(time_data)
           /\ Contiguous(cap_data)
           /\ Range(time_data) \subseteq 1..(loop_counter + 1)
           /\ Len(time_data) = Len(cap_data)
           /\ \A j \in 1..Len(time_data) : time_data[j] = cap_data[j]

\* two flushes have been written
C32_Witness ==
    /\ controllers # {}
    /\ flushed = "append"
    /\ \A p \in Connected : Len(Disk(p, "time_data")) = 2 * HISTORY_SIZE

\* C33: in the store, a stop_time of a sensor's cycle comes with a start_time
\* of the same sensor and cycle.
C33_StopTimeHasStartTime ==
    \A sensor_id \in CardSensors, cycle \in 0..MaxCycles :
        MetaKey(sensor_id, "stop_time", cycle) \in DOMAIN h5_meta
            => MetaKey(sensor_id, "start_time", cycle) \in DOMAIN h5_meta

\* C34: while no session is active no sensor is marked as recording.
C34_NoSensorRecordingWithoutSession ==
    ~recording_all => \A sensor_id \in SensorIds : ~sensor_states[sensor_id].is_recording

\* the task of the current recorder can issue no further read: it was never
\* created, has ended, or is suspended with its cancellation pending
LoopOver == pc \in {"none"} \cup Terminal \/ cancel_pending

\* C35: a new acquisition loop is created only when the previous one is over
\* and none of its reads is in flight, so at most one loop issues reads; and
\* while a session is active no step creates a recorder, a file or a task.
C35_SingleAcquisitionLoop ==
    [][/\ session' # session => LoopOver /\ ~AnyRunning
       /\ recording_all =>
              /\ session' = session
              /\ has_recorder' = has_recorder
              /\ h5_exists => h5_exists'
              /\ pc' = "created" => pc = "created"]_vars

\* the loop of a second session issues reads after the first was stopped
C35_Witness ==
    /\ session = 2
    /\ recording_all
    /\ AnyRunning
    /\ loop_counter >= 1

\* C36: in the store, a volume or weight of a sensor's cycle comes with a
\* start_time of the same sensor and cycle.
C36_VolumesOnlyForStartedCycles ==
    \A sensor_id \in VolumeSensors, cycle \in 0..MaxCycles, field \in VolumeFields :
        MetaKey(sensor_id, field, cycle) \in DOMAIN h5_meta
            => MetaKey(sensor_id, "start_time", cycle) \in DOMAIN h5_meta

\* the sensor lists of the acquisition topology and of the analysis's lookup
Acquired == {SERIAL_NUMBER_SENSOR_MAP[sn] : sn \in Boards}

Looked == {board_lookup[k].sensors : k \in 1..Len(board_lookup)}

\* 4 disjoint lists of 6 sensors that cover the sensor ids 1..24
Partition(groups) ==
    /\ Cardinality(groups) = 4
    /\ \A g \in groups : Len(g) = 6 /\ Cardinality(Range(g)) = 6
    /\ \A g \in groups, h \in groups : g # h => Range(g) \cap Range(h) = {}
    /\ UNION {Range(g) : g \in groups} = SensorIds

\* C37: the acquisition topology and the analysis's board lookup each split
\* the sensor ids 1..24 into 4 disjoint groups of 6 and give every sensor to
\* the same board, and every assigned animal's trace is the one truncated
\* from the group its sensor was written to.
C37_TopologiesAgree ==
    /\ Partition(Acquired)
    /\ Partition(Looked)
    /\ \A sensor \in SensorIds : board_id(sensor) = BoardOf(sensor)
    /\ analysis_pc = "done" =>
           \A i \in 1..Len(sensor_animal_map) :
               LET sensor == sensor_animal_map[i][1]
                   written == <<BoardOf(sensor), sensor>>
               IN written \in DOMAIN raw_h5f
                      => /\ sensor_animal_map[i][2] \in DOMAIN subjects
                         /\ subjects[sensor_animal_map[i][2]] = data_dict[written]

\* both animals were analysed, the second from the second board's group
C37_Witness ==
    /\ analysis_pc = "done"
    /\ DOMAIN subjects = {"A", "B"}
    /\ subjects["B"] = data_dict[<<"FT232H1", 4>>]
    /\ subjects["A"] = data_dict[<<"FT232H0", 1>>]
    /\ subjects["A"] # subjects["B"]

\* the run starts and ends computed for a trace at scanned threshold index k
StartsAt(data, k) == peak_starts(data.cap_data, Midpoint(data.cap_data, k))

EndsAt(data, k) == peak_ends(data.cap_data, Midpoint(data.cap_data, k))

\* C38: at every scanned threshold the computed run starts and run ends are
\* equally many and pair up, in order, as the disjoint maximal intervals of
\* the samples strictly below the threshold, runs that touch the first or
\* the last sample included; the alignment of mismatched counts never acts.
C38_StartsAndEndsPairUp ==
    \A animal \in Scanned :
        LET data == subjects[animal]
            trace == data.cap_data
        IN \A k \in scanned(data) :
               LET starts == StartsAt(data, k)
                   ends == EndsAt(data, k)
               IN /\ Len(starts) = Len(ends)
                  /\ \A p \in 1..Len(starts) : starts[p] <= ends[p]
                  /\ \A p \in 1..(Len(starts) - 1) : ends[p] < starts[p + 1]
                  /\ {<<starts[p], ends[p]>> : p \in 1..Len(starts)}
                         = Runs(trace, Midpoint(trace, k))
                  /\ UNION {starts[p]..ends[p] : p \in 1..Len(starts)}
                         = {i \in 0..(Len(trace) - 1) :
                               2 * trace[i + 1] < Midpoint(trace, k)}

\* at threshold index 2 (between 2 and 3) the trace has three runs: one at
\* the first sample, one inside, one up to the last sample
C38_Witness ==
    /\ "A" \in Scanned
    /\ subjects["A"].cap_data = <<0, 3, 1, 4, 2, 0>>
    /\ StartsAt(subjects["A"], 2) = <<0, 2, 4>>
    /\ EndsAt(subjects["A"], 2) = <<0, 2, 5>>

\* the animals for which the threshold scan reported events
Reporting == {animal \in Scanned : detected[animal].lick_indices # <<>>}

\* the run among the given ones that holds sample e
RunOf(runs, e) == CHOOSE r \in runs : e \in r[1]..r[2]

\* the ticks between the first and the last sample of a run
Duration(times, r) == times[r[2] + 1] - times[r[1] + 1]

\* C39: every event reported at threshold index i lies in a run below that
\* threshold which holds a sample strictly below the threshold at index
\* i - 2, and the event's own capacitance is strictly below that threshold.
C39_EventsTwoThresholdsDeep ==
    \A animal \in Reporting :
        LET data == subjects[animal]
            trace == data.cap_data
            i == Selected(data)
            runs == Runs(trace, Midpoint(trace, i))
            deeper == Midpoint(trace, i - 2)
            events == detected[animal].lick_indices
        IN \A j \in 1..Len(events) :
               /\ \E r \in runs :
                      /\ events[j] \in r[1]..r[2]
                      /\ \E m \in r[1]..r[2] : 2 * trace[m + 1] < deeper
               /\ 2 * trace[events[j] + 1] < deeper

\* an event is reported while another short run of the same threshold, not
\* deep enough, gives none
C39_Witness ==
    \E animal \in Reporting :
        LET data == subjects[animal]
            trace == data.cap_data
            i == Selected(data)
        IN \E r \in Runs(trace, Midpoint(trace, i)) :
               /\ 6 * Duration(data.time_data, r) < TicksPerSecond
               /\ \A m \in r[1]..r[2] : 2 * trace[m + 1] >= Midpoint(trace, i - 2)

\* C40: no reported event belongs to a run below its threshold that lasts,
\* from its first to its last sample, 1/6 s or more.
C40_NoEventInLongRun ==
    \A animal \in Reporting :
        LET data == subjects[animal]
            runs == Runs(data.cap_data, Midpoint(data.cap_data, Selected(data)))
            events == detected[animal].lick_indices
        IN \A j \in 1..Len(events) :
               6 * Duration(data.time_data, RunOf(runs, events[j])) < TicksPerSecond

\* an event is reported while a deep enough run of the same threshold that
\* lasts exactly 1/6 s gives none
C40_Witness ==
    \E animal \in Reporting :
        LET data == subjects[animal]
            trace == data.cap_data
            i == Selected(data)
        IN \E r \in Runs(trace, Midpoint(trace, i)) :
               /\ 6 * Duration(data.time_data, r) = TicksPerSecond
               /\ \E m \in r[1]..r[2] : 2 * trace[m + 1] < Midpoint(trace, i - 2)

====
